---- MODULE Spec2Model ----
(***************************************************************************)
(* Model of LocalSuperAgent: the orchestration loop (simulation.js) and    *)
(* the path-sandboxed file store with its operation queue                  *)
(* (file_system_utils.js).                                                 *)
(*                                                                         *)
(* Strings that the code inspects character by character (file paths) are  *)
(* sequences of one-character strings.  Absolute paths produced by         *)
(* path.resolve are sequences of segments.  POSIX path rules are assumed.  *)
(***************************************************************************)
EXTENDS Integers, Sequences, FiniteSets, TLC

VARIABLES
    \* ---- file store (file_system_utils.js) ----
    fsys,                   \* the filesystem: absolute path -> node
    fileOperationQueue,     \* queued operations, oldest first
    isProcessingQueue,      \* the drain loop's flag
    pendingFileOperations,  \* the pending counter
    drains,                 \* activations of processFileOperationQueue that hold an operation
    results,                \* what each caller's promise was resolved with
    resolveCount,           \* how many times each caller's callback ran
    submitted,              \* history: the operations submitted, in submission order
    startOrder,             \* history: ids in the order performFileActionInternal was entered
    doneOrder,              \* history: ids in the order the callbacks ran
    waiter,                 \* the caller of waitForFileOperations and its polling timer
    \* ---- orchestration loop (simulation.js) ----
    pc,                     \* position of runSimulation
    loopCounter,
    consecutiveWaitCount,
    phase,                  \* db.companionState.phase
    status,                 \* db.state.currentProject.status
    currentFocus,           \* db.superAgent.currentFocus
    activeSpecialists,      \* db.activeSpecialists
    completedTasks,         \* db.state.currentProject.completedTasks
    saved,                  \* the persisted snapshot (DB_FILE)
    assigned,               \* assignedSpecialistForExecution: index into the roster, 0 = null
    pendingDirective,       \* the directive of the cycle while the operator is being prompted
    waitRun,                \* history: WAIT directives since the last non-WAIT directive or prompt answer
    cycleDelegated,         \* history: the current cycle's directive carried a valid delegation
    cycleDelegation,        \* history: the delegation of the current cycle's directive
    cycleRun,               \* history: what the current cycle's directive asked for and what ran
    \* ---- histories kept in the snapshot (simulation.js) ----
    fileVerifications,      \* db.state.fileVerifications
    savedVerifications,     \* state.fileVerifications of the persisted snapshot
    conversationHistory,    \* the event log in memory (db.log)
    savedLog,               \* the event log of the persisted snapshot
    \* ---- functions checked on their own ----
    args,                   \* the arguments of the call
    returned                \* what the call returned

fsVars == <<fsys, fileOperationQueue, isProcessingQueue, pendingFileOperations,
            drains, results, resolveCount, submitted, startOrder, doneOrder, waiter>>
loopVars == <<pc, loopCounter, consecutiveWaitCount, phase, status, currentFocus,
              activeSpecialists, completedTasks, saved, assigned, pendingDirective,
              waitRun, cycleDelegated, cycleDelegation, cycleRun>>
histVars == <<fileVerifications, savedVerifications, conversationHistory, savedLog>>
callVars == <<args, returned>>
vars == <<fsVars, loopVars, histVars, callVars>>

Null == "null"

----------------------------------------------------------------------------
(* Bounds of the model *)

\* file operations issued one after the other in FileSpec
MaxFileOps == 2
\* operations submitted concurrently in QueueSpec
MaxSubmit == 3
\* operations submitted concurrently in QueueLiveSpec
MaxLiveSubmit == 3
\* operations submitted in WaitSpec
MaxWaitSubmit == 2
\* the timeout of waitForFileOperations (maxWaitMs), in polling intervals
MaxWaitTicks == 2

----------------------------------------------------------------------------
(* String helpers (JavaScript String methods on character sequences) *)

StartsWith(s, pre) ==
    Len(s) >= Len(pre) /\ SubSeq(s, 1, Len(pre)) = pre

EndsWith(s, suf) ==
    Len(s) >= Len(suf) /\ SubSeq(s, Len(s) - Len(suf) + 1, Len(s)) = suf

\* s.substring(n)
Substring(s, n) == SubSeq(s, n + 1, Len(s))

\* s.includes(sub)
Includes(s, sub) ==
    \E i \in 1..(Len(s) - Len(sub) + 1) : SubSeq(s, i, i + Len(sub) - 1) = sub

\* the segments of s between "/" characters (empty segments included)
RECURSIVE SplitFrom(_, _, _)
SplitFrom(s, i, cur) ==
    IF i > Len(s) THEN <<cur>>
    ELSE IF s[i] = "/" THEN <<cur>> \o SplitFrom(s, i + 1, <<>>)
    ELSE SplitFrom(s, i + 1, Append(cur, s[i]))

Split(s) == SplitFrom(s, 1, <<>>)

----------------------------------------------------------------------------
(* Paths *)

\* PROJECT_WORKSPACE = path.resolve('./project_workspace'), as segments
PROJECT_WORKSPACE == << <<"c", "w", "d">>, <<"p", "w">> >>

WorkspacePrefix == <<"/", "w", "o", "r", "k", "s", "p", "a", "c", "e", "/">>

\* the argument of relativePath.substring(...) in the "/workspace/" branch
WorkspaceStrip == 10

\* path.isAbsolute on POSIX
isAbsolute(p) == Len(p) > 0 /\ p[1] = "/"

\* path.resolve(base, rel) for a relative rel: ".", "" are dropped, ".." pops
RECURSIVE ResolveSegs(_, _, _)
ResolveSegs(acc, segs, i) ==
    IF i > Len(segs) THEN acc
    ELSE IF segs[i] = <<>> \/ segs[i] = <<".">> THEN ResolveSegs(acc, segs, i + 1)
    ELSE IF segs[i] = <<".", ".">>
         THEN ResolveSegs(IF acc = <<>> THEN acc ELSE SubSeq(acc, 1, Len(acc) - 1),
                          segs, i + 1)
    ELSE ResolveSegs(Append(acc, segs[i]), segs, i + 1)

Resolve(base, rel) ==
    IF isAbsolute(rel) THEN ResolveSegs(<<>>, Split(rel), 1)
    ELSE ResolveSegs(base, Split(rel), 1)

\* path.dirname of a normalised absolute path
Dirname(abs) == IF abs = <<>> THEN abs ELSE SubSeq(abs, 1, Len(abs) - 1)

IsPrefix(a, b) == Len(a) <= Len(b) /\ SubSeq(b, 1, Len(a)) = a

\* lines 211-219: the "/workspace/" special case, else one leading slash
NormalizePath(relativePath) ==
    IF relativePath # <<>> /\ StartsWith(relativePath, WorkspacePrefix)
    THEN Substring(relativePath, WorkspaceStrip)
    ELSE IF relativePath # <<>> /\ StartsWith(relativePath, <<"/">>)
    THEN Substring(relativePath, 1)
    ELSE relativePath

\* variant: the ".." test is missing
InvalidPathNoDotDot(relativePath) ==
    relativePath = <<>> \/ isAbsolute(relativePath)

\* line 222: the basic path validation (on the normalised path)
InvalidPath(relativePath) ==
    \/ relativePath = <<>>
    \/ Includes(relativePath, <<".", ".">>)
    \/ isAbsolute(relativePath)

\* line 231: absolutePath.startsWith(PROJECT_WORKSPACE + path.sep) || absolutePath === PROJECT_WORKSPACE
InsideWorkspace(abs) == IsPrefix(PROJECT_WORKSPACE, abs)

\* variant: no validation at all apart from the empty path
PathCheckMissing(relativePath) ==
    IF relativePath = <<>> THEN "Invalid path" ELSE Null

\* lines 221-234: Null when the path is accepted, else the error returned
PathCheck(relativePath) ==
    IF InvalidPath(relativePath) THEN "Invalid path"
    ELSE IF ~InsideWorkspace(Resolve(PROJECT_WORKSPACE, relativePath))
    THEN "Path outside workspace"
    ELSE Null

----------------------------------------------------------------------------
(* The filesystem: a function from absolute paths to nodes.  Every         *)
(* ancestor of an existing node exists and is a directory.                 *)

DirNode == [kind |-> "dir", content |-> Null]
FileNode(c) == [kind |-> "file", content |-> c]

Prefixes(abs) == { SubSeq(abs, 1, n) : n \in 0..Len(abs) }

\* the workspace directory and its ancestors, as fs.mkdir(PROJECT_WORKSPACE) leaves them
EmptyWorkspace == [p \in Prefixes(PROJECT_WORKSPACE) |-> DirNode]

Extend(fs, p, node) ==
    [q \in (DOMAIN fs) \cup {p} |-> IF q = p THEN node ELSE fs[q]]

\* fs.mkdir(abs, {recursive: true}): [code, fs]
Mkdirp(fs, abs) ==
    IF \E p \in Prefixes(abs) : p \in DOMAIN fs /\ fs[p].kind = "file"
    THEN [code |-> IF abs \in DOMAIN fs /\ fs[abs].kind = "file" THEN "EEXIST" ELSE "ENOTDIR",
          fs |-> fs]
    ELSE [code |-> "ok",
          fs |-> [q \in (DOMAIN fs) \cup Prefixes(abs) |->
                    IF q \in DOMAIN fs THEN fs[q] ELSE DirNode]]

\* fs.writeFile(abs, content): [code, fs]
WriteFile(fs, abs, content) ==
    IF abs \in DOMAIN fs /\ fs[abs].kind = "dir" THEN [code |-> "EISDIR", fs |-> fs]
    ELSE IF Dirname(abs) \notin DOMAIN fs THEN [code |-> "ENOENT", fs |-> fs]
    ELSE IF fs[Dirname(abs)].kind = "file" THEN [code |-> "ENOTDIR", fs |-> fs]
    ELSE [code |-> "ok", fs |-> Extend(fs, abs, FileNode(content))]

\* fs.access(abs) succeeds
Accessible(fs, abs) == abs \in DOMAIN fs

----------------------------------------------------------------------------
(* performFileActionInternal *)

\* a failure result has no path field: the empty string stands for it
NoPath == <<>>

Ok(path) == [success |-> TRUE, path |-> path, error |-> Null]
Fail(error) == [success |-> FALSE, path |-> NoPath, error |-> error]

\* lines 294-299: the catch block
Caught(code) ==
    IF code = "EISDIR" THEN Fail("Attempted file operation on a directory path")
    ELSE IF code = "ENOTDIR" THEN Fail("Attempted directory operation on a file path")
    ELSE Fail("File system error")

\* lines 239-244
CreateFile(fs, rel, abs, content) ==
    LET m == Mkdirp(fs, Dirname(abs))
        w == WriteFile(m.fs, abs, IF content = Null THEN "" ELSE content)
    IN  IF m.code # "ok" THEN [result |-> Caught(m.code), fs |-> m.fs]
        ELSE IF w.code # "ok" THEN [result |-> Caught(w.code), fs |-> w.fs]
        ELSE [result |-> Ok(rel), fs |-> w.fs]

\* lines 246-281
ModifyFile(fs, rel, abs, content) ==
    LET m == Mkdirp(fs, Dirname(abs))
        w == WriteFile(m.fs, abs, content)
    IN  IF EndsWith(rel, <<"/">>)
        THEN [result |-> Fail("Cannot MODIFY_FILE on a directory path."), fs |-> fs]
        ELSE IF ~Accessible(fs, abs)
        THEN [result |-> Fail("Cannot modify non-existent file."), fs |-> fs]
        ELSE IF content = Null
        THEN [result |-> Fail("Invalid content for file modification."), fs |-> fs]
        ELSE IF m.code # "ok" THEN [result |-> Caught(m.code), fs |-> m.fs]
        ELSE IF w.code # "ok" THEN [result |-> Caught(w.code), fs |-> w.fs]
        ELSE [result |-> Ok(rel), fs |-> w.fs]

\* lines 283-288
CreateDirectory(fs, rel, abs) ==
    LET m == Mkdirp(fs, abs)
    IN  IF m.code # "ok" THEN [result |-> Caught(m.code), fs |-> m.fs]
        ELSE [result |-> Ok(IF EndsWith(rel, <<"/">>) THEN rel ELSE Append(rel, "/")),
              fs |-> m.fs]

\* an argument that is undefined or left out
Undefined == "undefined"

\* lines 185 and 210: content = '', the default of a parameter that is undefined
DefaultParameter(value, default) == IF value = Undefined THEN default ELSE value

\* lines 210-300: [result, fs] of one operation applied to filesystem fs
performFileActionInternal(action, relativePath, contentArgument, fs) ==
    LET content == DefaultParameter(contentArgument, "")
        rel == NormalizePath(relativePath)
        err == PathCheck(rel)
        abs == Resolve(PROJECT_WORKSPACE, rel)
    IN  IF err # Null THEN [result |-> Fail(err), fs |-> fs]
        ELSE IF action = "CREATE_FILE" THEN CreateFile(fs, rel, abs, content)
        ELSE IF action = "MODIFY_FILE" THEN ModifyFile(fs, rel, abs, content)
        ELSE IF action = "CREATE_DIRECTORY" THEN CreateDirectory(fs, rel, abs)
        ELSE [result |-> Fail("Unknown file action"), fs |-> fs]

----------------------------------------------------------------------------
(* The file operation queue *)

NoResult == [success |-> FALSE, path |-> NoPath, error |-> "unresolved"]

\* variant: the isProcessingQueue test is missing
DrainGuardNoFlag(processing, queue) == queue # <<>>

\* line 146: the guard of processFileOperationQueue
DrainGuard(processing, queue) == ~processing /\ queue # <<>>

\* variant: the newest operation is taken
TakeNewest(queue) ==
    [op |-> queue[Len(queue)], rest |-> SubSeq(queue, 1, Len(queue) - 1)]

\* line 150: fileOperationQueue.shift()
TakeOperation(queue) == [op |-> Head(queue), rest |-> Tail(queue)]

\* variant: the drain loop does not look at the queue again
NoRestart(queue) == FALSE

\* line 173: the finally block restarts the drain loop
RestartNeeded(queue) == Len(queue) > 0

\* lines 145-155: processFileOperationQueue from its entry to its await, given the
\* values the variables have at the call
EnterDrain(queue, processing, pending, drs, started) ==
    IF DrainGuard(processing, queue)
    THEN LET t == TakeOperation(queue)
         IN  /\ isProcessingQueue' = TRUE
             /\ fileOperationQueue' = t.rest
             /\ pendingFileOperations' = pending + 1
             /\ drains' = drs \cup {[op |-> t.op, stage |-> "internal",
                                     result |-> NoResult, pre |-> fsys]}
             /\ startOrder' = Append(started, t.op.id)
    ELSE /\ isProcessingQueue' = processing
         /\ fileOperationQueue' = queue
         /\ pendingFileOperations' = pending
         /\ drains' = drs
         /\ startOrder' = started

\* lines 185-201: performFileAction pushes the operation and calls the drain loop;
\* given keeps the content argument as the caller passed it
performFileAction(action, relativePath, content) ==
    LET op == [id |-> Len(submitted) + 1, action |-> action,
               relativePath |-> relativePath,
               content |-> DefaultParameter(content, ""), given |-> content]
    IN  /\ submitted' = Append(submitted, op)
        /\ results' = Append(results, NoResult)
        /\ resolveCount' = Append(resolveCount, 0)
        /\ EnterDrain(Append(fileOperationQueue, op), isProcessingQueue,
                      pendingFileOperations, drains, startOrder)
        /\ UNCHANGED <<fsys, doneOrder, waiter>>

\* lines 155-159: the awaited performFileActionInternal runs and returns
InternalStep(d) ==
    /\ d \in drains
    /\ d.stage = "internal"
    /\ LET r == performFileActionInternal(d.op.action, d.op.relativePath, d.op.content, fsys)
       IN  /\ fsys' = r.fs
           /\ drains' = (drains \ {d}) \cup
                  {[d EXCEPT !.stage = "returned", !.result = r.result, !.pre = fsys]}
    /\ UNCHANGED <<fileOperationQueue, isProcessingQueue, pendingFileOperations,
                   results, resolveCount, submitted, startOrder, doneOrder, waiter>>

\* lines 161-176: the drain loop resumes: callback, counter, flag, next operation
DrainResume(d) ==
    /\ d \in drains
    /\ d.stage = "returned"
    /\ results' = [results EXCEPT ![d.op.id] = d.result]
    /\ resolveCount' = [resolveCount EXCEPT ![d.op.id] = @ + 1]
    /\ doneOrder' = Append(doneOrder, d.op.id)
    /\ IF RestartNeeded(fileOperationQueue)
       THEN EnterDrain(fileOperationQueue, FALSE, pendingFileOperations - 1,
                       drains \ {d}, startOrder)
       ELSE /\ isProcessingQueue' = FALSE
            /\ pendingFileOperations' = pendingFileOperations - 1
            /\ drains' = drains \ {d}
            /\ UNCHANGED <<fileOperationQueue, startOrder>>
    /\ UNCHANGED <<fsys, submitted, waiter>>

queueVars == <<fsys, fileOperationQueue, isProcessingQueue, pendingFileOperations,
               drains, results, resolveCount, submitted, startOrder, doneOrder>>

\* the caller is not inside waitForFileOperations
IdleWaiter == [pc |-> "idle", purpose |-> Null, ticks |-> 0, result |-> "none",
               inFlight |-> 0, queued |-> 0]

\* a call of waitForFileOperations resolved with result; inFlight and queued record
\* the operations inside performFileActionInternal and in the queue at that moment
Resolved(w, result) ==
    [w EXCEPT !.pc = "resolved", !.result = result,
              !.inFlight = Cardinality(drains), !.queued = Len(fileOperationQueue)]

\* variant: only the queue is looked at
NothingQueued(pending, queue) == Len(queue) = 0

\* lines 308 and 318: no operation pending and none queued
NothingPending(pending, queue) == pending = 0 /\ Len(queue) = 0

\* lines 307-316: the call of waitForFileOperations, from saveState ("save",
\* simulation.js line 71) or from the end of the cycle ("reload", line 668)
waitForFileOperations(purpose) ==
    /\ waiter.pc = "idle"
    /\ waiter' = IF NothingPending(pendingFileOperations, fileOperationQueue)
                 THEN Resolved([IdleWaiter EXCEPT !.purpose = purpose], "true")
                 ELSE [IdleWaiter EXCEPT !.pc = "polling", !.purpose = purpose]
    /\ UNCHANGED queueVars

\* lines 317-327: one run of the interval callback, a polling interval after the
\* previous one
CheckInterval ==
    /\ waiter.pc = "polling"
    /\ waiter' = IF NothingPending(pendingFileOperations, fileOperationQueue)
                 THEN Resolved([waiter EXCEPT !.ticks = @ + 1], "true")
                 ELSE IF waiter.ticks + 1 > MaxWaitTicks
                 THEN Resolved([waiter EXCEPT !.ticks = @ + 1], "false")
                 ELSE [waiter EXCEPT !.ticks = @ + 1]
    /\ UNCHANGED queueVars

\* simulation.js line 73 (saveToDatabase) and line 671 (loadState): the caller goes
\* on once the wait has resolved, whatever the result
AfterWait ==
    /\ waiter.pc = "resolved"
    /\ waiter' = IdleWaiter
    /\ UNCHANGED queueVars

----------------------------------------------------------------------------
(* The orchestration loop: inputs *)

\* cycles of the main loop that the model runs
MaxCycles == 6
\* specialists in the roster beyond which the model offers no more delegations
MaxRoster == 2

\* simulation.js line 203: consecutiveWaitCount >= 5
WaitThreshold == 5
\* simulation.js line 624: completedTasks.length > 10
MaxCompletedTasks == 10

\* agent_templates.js: the roles of executorTemplates
RegisteredRoles == {"Executor-Code", "Executor-Test", "Executor-Design"}

NoSystemAction == [action |-> Null, paramKey |-> Null, paramValue |-> Null]
NoDelegation == [role |-> Null, description |-> Null]

\* what parseSystemAction can return for the texts the Orchestrator may emit
SystemActions ==
    {NoSystemAction}
    \cup {[action |-> "CHANGE_PHASE", paramKey |-> "phase", paramValue |-> v] :
            v \in {"Implementation", "AWAITING_NEXT_GOAL"}}
    \cup {[action |-> "CHANGE_STATUS", paramKey |-> "status", paramValue |-> v] :
            v \in {"In Progress", "Completed"}}
    \cup {[action |-> "CHANGE_STATUS", paramKey |-> Null, paramValue |-> Null],
          [action |-> "CHANGE_PHASE", paramKey |-> Null, paramValue |-> Null],
          [action |-> "WAIT", paramKey |-> "reason", paramValue |-> "idle"],
          [action |-> "REQUEST_USER_INPUT", paramKey |-> Null, paramValue |-> Null],
          [action |-> "RESTART", paramKey |-> Null, paramValue |-> Null]}

\* what parseDelegateTaskAction can return
Delegations ==
    {NoDelegation}
    \cup {[role |-> "Executor-Code", description |-> "t1"],
          [role |-> "Executor-Test", description |-> "t2"],
          [role |-> "Manager", description |-> "t1"]}

\* which of RUN_TEST_COMMAND, LIST_DIRECTORY and READ_FILE a directive carries:
\* none, the command alone, the two requests without the command
Requests ==
    { [command |-> FALSE, list |-> FALSE, read |-> FALSE],
      [command |-> TRUE, list |-> FALSE, read |-> FALSE],
      [command |-> FALSE, list |-> TRUE, read |-> TRUE] }

\* the action bundle processActions returns for an Orchestrator response; a backend
\* failure ("[AI Error: ...") carries no action
Directives ==
    { [sys |-> s, delegate |-> g, command |-> q.command, list |-> q.list,
       read |-> q.read, failed |-> FALSE] :
         s \in SystemActions, g \in Delegations, q \in Requests }
    \cup { [sys |-> NoSystemAction, delegate |-> NoDelegation, command |-> FALSE,
            list |-> FALSE, read |-> FALSE, failed |-> TRUE] }

\* nothing asked for and nothing run: the record between two cycles
NoRun ==
    [event |-> Null, sysAction |-> Null, failed |-> FALSE, command |-> FALSE,
     list |-> FALSE, read |-> FALSE, ranCommand |-> FALSE, ranList |-> FALSE,
     ranRead |-> FALSE, ranSpecialist |-> FALSE, taskStatus |-> Null,
     specialistFailed |-> FALSE, goalSet |-> FALSE, specialistAsked |-> FALSE,
     paramKey |-> Null, paramValue |-> Null]

NoDirective ==
    [sys |-> NoSystemAction, delegate |-> NoDelegation, command |-> FALSE,
     list |-> FALSE, read |-> FALSE, failed |-> FALSE]

\* the Orchestrator's markers in a specialist's response, as processActions parses
\* them (simulation.js line 519): SYSTEM_ACTION: CHANGE_PHASE, DELEGATE_TASK,
\* RUN_TEST_COMMAND, LIST_DIRECTORY and READ_FILE
SpecialistMarkers ==
    [sys |-> [action |-> "CHANGE_PHASE", paramKey |-> "phase", paramValue |-> "Testing"],
     delegate |-> [role |-> "Executor-Test", description |-> "t2"],
     command |-> TRUE, list |-> TRUE, read |-> TRUE, failed |-> FALSE]

\* what a specialist's response amounts to: its task status marker, whether the
\* backend failed, whether a file or bug action made a change, and the markers of
\* the Orchestrator that it carries
SpecialistResponses ==
    [taskStatus : {"TASK_COMPLETE", "TASK_BLOCKED", Null}, failed : {FALSE},
     madeChanges : BOOLEAN, asks : {NoDirective}]
    \cup [taskStatus : {Null}, failed : {TRUE}, madeChanges : {FALSE},
          asks : {NoDirective}]
    \cup [taskStatus : {Null}, failed : {FALSE}, madeChanges : {FALSE},
          asks : {SpecialistMarkers}]

----------------------------------------------------------------------------
(* The orchestration loop: state and helpers *)

\* variant: the roster is left out of what is saved
SnapshotWithoutRoster(ph, st, foc, roster, done) ==
    [phase |-> ph, status |-> st, currentFocus |-> foc,
     activeSpecialists |-> <<>>, completedTasks |-> done]

\* simulation.js lines 55-74: what saveState writes of the fields the loop changes
Snapshot(ph, st, foc, roster, done) ==
    [phase |-> ph, status |-> st, currentFocus |-> foc,
     activeSpecialists |-> roster, completedTasks |-> done]

\* state_manager.js lines 79-96: the snapshot of a first run
FirstRunSnapshot == Snapshot("AWAITING_GOAL", "Awaiting Goal", Null, <<>>, <<>>)

\* !x for a string or null
Falsy(x) == x = Null \/ x = ""

\* variant: the role is not validated against the templates
findOrCreateAnyRole(roster, role, taskDescription) ==
    IF \E i \in 1..Len(roster) :
           roster[i].role = role /\ Falsy(roster[i].taskDescription)
    THEN LET i == CHOOSE j \in 1..Len(roster) :
                    /\ roster[j].role = role /\ Falsy(roster[j].taskDescription)
                    /\ \A k \in 1..(j - 1) :
                         ~(roster[k].role = role /\ Falsy(roster[k].taskDescription))
         IN  [roster |-> [roster EXCEPT ![i].taskDescription = taskDescription],
              index |-> i]
    ELSE [roster |-> Append(roster, [role |-> role, taskDescription |-> taskDescription]),
          index |-> Len(roster) + 1]

\* variant: the first idle specialist is taken again, whatever its role
findOrCreateFirstIdle(roster, role, taskDescription) ==
    IF role \notin RegisteredRoles THEN [roster |-> roster, index |-> 0]
    ELSE IF \E i \in 1..Len(roster) : Falsy(roster[i].taskDescription)
    THEN LET i == CHOOSE j \in 1..Len(roster) :
                    /\ Falsy(roster[j].taskDescription)
                    /\ \A k \in 1..(j - 1) : ~Falsy(roster[k].taskDescription)
         IN  [roster |-> [roster EXCEPT ![i].taskDescription = taskDescription],
              index |-> i]
    ELSE [roster |-> Append(roster, [role |-> role, taskDescription |-> taskDescription]),
          index |-> Len(roster) + 1]

\* simulation.js lines 284-315: [roster, index]; index 0 is the null return
findOrCreateSpecialist(roster, role, taskDescription) ==
    IF role \notin RegisteredRoles THEN [roster |-> roster, index |-> 0]
    ELSE IF \E i \in 1..Len(roster) :
                roster[i].role = role /\ Falsy(roster[i].taskDescription)
    THEN LET i == CHOOSE j \in 1..Len(roster) :
                    /\ roster[j].role = role /\ Falsy(roster[j].taskDescription)
                    /\ \A k \in 1..(j - 1) :
                         ~(roster[k].role = role /\ Falsy(roster[k].taskDescription))
         IN  [roster |-> [roster EXCEPT ![i].taskDescription = taskDescription],
              index |-> i]
    ELSE [roster |-> Append(roster, [role |-> role, taskDescription |-> taskDescription]),
          index |-> Len(roster) + 1]

\* variant: a system action of an unknown type halts the rest of the directive
SystemActionEffectUnknownHalts(sys, ph, st, count) ==
    IF sys.action = "CHANGE_PHASE"
    THEN [newStatus |-> Null,
          newPhase |-> IF sys.paramKey = "phase" /\ sys.paramValue # Null
                          /\ ph # sys.paramValue
                       THEN sys.paramValue ELSE Null,
          skip |-> FALSE, count |-> 0]
    ELSE IF sys.action = "CHANGE_STATUS"
    THEN [newStatus |-> IF sys.paramKey = "status" /\ sys.paramValue # Null
                           /\ st # sys.paramValue
                        THEN sys.paramValue ELSE Null,
          newPhase |-> Null, skip |-> FALSE, count |-> 0]
    ELSE IF sys.action = "WAIT"
    THEN [newStatus |-> Null, newPhase |-> Null, skip |-> TRUE, count |-> count + 1]
    ELSE IF sys.action = "REQUEST_USER_INPUT"
    THEN [newStatus |-> Null, newPhase |-> "AWAITING_NEXT_GOAL", skip |-> TRUE,
          count |-> 0]
    ELSE [newStatus |-> Null, newPhase |-> Null, skip |-> sys.action # Null,
          count |-> count]

\* simulation.js lines 182-262 without the operator prompt: what the switch leaves in
\* newProjectStatus, newCompanionPhase, skipSpecialistTurn and consecutiveWaitCount
SystemActionEffect(sys, ph, st, count) ==
    IF sys.action = "CHANGE_PHASE"
    THEN [newStatus |-> Null,
          newPhase |-> IF sys.paramKey = "phase" /\ sys.paramValue # Null
                          /\ ph # sys.paramValue
                       THEN sys.paramValue ELSE Null,
          skip |-> FALSE, count |-> 0]
    ELSE IF sys.action = "CHANGE_STATUS"
    THEN [newStatus |-> IF sys.paramKey = "status" /\ sys.paramValue # Null
                           /\ st # sys.paramValue
                        THEN sys.paramValue ELSE Null,
          newPhase |-> Null, skip |-> FALSE, count |-> 0]
    ELSE IF sys.action = "WAIT"
    THEN [newStatus |-> Null, newPhase |-> Null, skip |-> TRUE, count |-> count + 1]
    ELSE IF sys.action = "REQUEST_USER_INPUT"
    THEN [newStatus |-> Null, newPhase |-> "AWAITING_NEXT_GOAL", skip |-> TRUE,
          count |-> 0]
    ELSE [newStatus |-> Null, newPhase |-> Null, skip |-> FALSE, count |-> count]

\* variant: the roster is not cleared when the project is marked complete
ApplyStateChangesKeepRoster(newStatus, newPhase, ph, st, foc, roster) ==
    LET st1 == IF newStatus # Null THEN newStatus ELSE st
        toNext == newPhase = "AWAITING_NEXT_GOAL"
    IN  [phase |-> IF newPhase # Null THEN newPhase ELSE ph,
         status |-> IF toNext THEN "Completed" ELSE st1,
         currentFocus |-> IF toNext THEN Null ELSE foc,
         roster |-> roster,
         completed |-> (newStatus = "Completed") \/ toNext]

\* variant: a directive that asks for no change ends the project
ApplyStateChangesIdleCompletes(newStatus, newPhase, ph, st, foc, roster) ==
    LET st1 == IF newStatus # Null THEN newStatus ELSE st
        toNext == newPhase = "AWAITING_NEXT_GOAL"
    IN  [phase |-> IF newPhase # Null THEN newPhase ELSE ph,
         status |-> IF toNext /\ st1 # "Completed" THEN "Completed" ELSE st1,
         currentFocus |-> IF toNext THEN Null ELSE foc,
         roster |-> IF toNext THEN <<>> ELSE roster,
         completed |-> (newStatus = "Completed") \/ toNext
                       \/ (newStatus = Null /\ newPhase = Null)]

\* simulation.js lines 349-370: Apply State Changes from Orchestrator
ApplyStateChanges(newStatus, newPhase, ph, st, foc, roster) ==
    LET st1 == IF newStatus # Null THEN newStatus ELSE st
        toNext == newPhase = "AWAITING_NEXT_GOAL"
    IN  [phase |-> IF newPhase # Null THEN newPhase ELSE ph,
         status |-> IF toNext /\ st1 # "Completed" THEN "Completed" ELSE st1,
         currentFocus |-> IF toNext THEN Null ELSE foc,
         roster |-> IF toNext THEN <<>> ELSE roster,
         completed |-> (newStatus = "Completed") \/ toNext]

\* variant: a delegation is run whatever else the directive holds
SpecialistGuardDelegationOnly(index, consoleCommandToRun, skipSpecialistTurn) ==
    index # 0

\* simulation.js line 489: assignedSpecialistForExecution && !consoleCommandToRun &&
\* !skipSpecialistTurn
SpecialistGuard(index, consoleCommandToRun, skipSpecialistTurn) ==
    index # 0 /\ ~consoleCommandToRun /\ ~skipSpecialistTurn

\* simulation.js lines 265-451 and the branch taken after them: the rest of the
\* Orchestrator's turn once the system action is handled.  stateChangedInTurn is
\* true in every cycle (line 161), so one of the saveState calls of lines 374,
\* 403, 433, 442 runs; all of them write the snapshot left by lines 349-370.
\* goalSet tells whether the operator replaced the goal at the stagnation prompt.
FinishTurn(d, eff, ph, st, done, goalSet) ==
    LET f == IF d.delegate # NoDelegation
             THEN findOrCreateSpecialist(activeSpecialists, d.delegate.role,
                                         d.delegate.description)
             ELSE [roster |-> activeSpecialists, index |-> 0]
        consoleCommandToRun == ~eff.skip /\ d.command
        a == ApplyStateChanges(eff.newStatus, eff.newPhase, ph, st, currentFocus, f.roster)
    IN  /\ phase' = a.phase
        /\ status' = a.status
        /\ currentFocus' = a.currentFocus
        /\ activeSpecialists' = a.roster
        /\ completedTasks' = done
        /\ saved' = Snapshot(a.phase, a.status, a.currentFocus, a.roster, done)
        /\ assigned' = IF consoleCommandToRun THEN 0 ELSE f.index
        /\ cycleDelegated' = (f.index # 0)
        /\ cycleDelegation' = d.delegate
        /\ cycleRun' = [event |-> IF d.failed THEN "[AI Error" ELSE "directive",
                        sysAction |-> d.sys.action, failed |-> d.failed,
                        command |-> d.command, list |-> d.list, read |-> d.read,
                        ranCommand |-> consoleCommandToRun, ranList |-> d.list,
                        ranRead |-> d.read, ranSpecialist |-> FALSE,
                        taskStatus |-> Null, specialistFailed |-> FALSE,
                        goalSet |-> goalSet, specialistAsked |-> FALSE,
                        paramKey |-> d.sys.paramKey, paramValue |-> d.sys.paramValue]
        /\ pc' = IF a.completed THEN "complete"
                 ELSE IF SpecialistGuard(f.index, consoleCommandToRun, eff.skip)
                 THEN "specialist"
                 ELSE "endcycle"

----------------------------------------------------------------------------
(* The orchestration loop: actions *)

\* simulation.js lines 93-123: the initial goal prompt
InitialGoal(goal) ==
    /\ pc = "goal"
    /\ phase = "AWAITING_GOAL"
    /\ IF goal = ""
       THEN /\ pc' = "done"
            /\ UNCHANGED <<phase, status, currentFocus, activeSpecialists,
                           completedTasks, saved>>
       ELSE /\ pc' = "turn"
            /\ status' = "Planning"
            /\ phase' = "Planning"
            /\ currentFocus' = Null
            /\ activeSpecialists' = <<>>
            /\ completedTasks' = <<>>
            /\ saved' = Snapshot("Planning", "Planning", Null, <<>>, <<>>)
    /\ UNCHANGED <<loopCounter, consecutiveWaitCount, assigned, pendingDirective,
                   waitRun, cycleDelegated, cycleDelegation, cycleRun>>
    /\ UNCHANGED <<fsVars, callVars, histVars>>

\* simulation.js lines 127-451: the Orchestrator's turn, up to the operator prompt
\* of the stagnation guard when that is reached, else up to the end of line 451
OrchestratorTurn(d) ==
    /\ pc = "turn"
    /\ loopCounter < MaxCycles
    /\ d.delegate # NoDelegation => Len(activeSpecialists) < MaxRoster
    /\ loopCounter' = loopCounter + 1
    /\ waitRun' = IF d.sys.action = "WAIT" THEN waitRun + 1 ELSE 0
    /\ LET eff == SystemActionEffect(d.sys, phase, status, consecutiveWaitCount)
       IN  /\ consecutiveWaitCount' = eff.count
           /\ IF d.sys.action = "WAIT" /\ eff.count >= WaitThreshold
              THEN /\ pc' = "stagnation"
                   /\ pendingDirective' = d
                   /\ UNCHANGED <<phase, status, currentFocus, activeSpecialists,
                                  completedTasks, saved, assigned, cycleDelegated,
                                  cycleDelegation, cycleRun>>
              ELSE /\ FinishTurn(d, eff, phase, status, completedTasks, FALSE)
                   /\ UNCHANGED pendingDirective
    /\ UNCHANGED <<fsVars, callVars, histVars>>

\* simulation.js lines 205-251: the operator answers the stagnation prompt, and the
\* turn goes on (lines 265-451).  Choice 3 with a goal replaces the project and
\* saves it before the turn goes on.
StagnationAnswer(choice) ==
    /\ pc = "stagnation"
    /\ consecutiveWaitCount' = 0
    /\ waitRun' = 0
    /\ pendingDirective' = NoDirective
    /\ LET eff == [newStatus |-> Null, newPhase |-> Null, skip |-> TRUE, count |-> 0]
       IN  IF choice = "3-goal"
           THEN FinishTurn(pendingDirective, eff, "Planning", "Planning", <<>>, TRUE)
           ELSE FinishTurn(pendingDirective, eff, phase, status, completedTasks, FALSE)
    /\ UNCHANGED loopCounter
    /\ UNCHANGED <<fsVars, callVars, histVars>>

\* simulation.js lines 453-485: the project is complete, the operator is asked
CompletePrompt(goal) ==
    /\ pc = "complete"
    /\ IF goal \in {"", "exit"}
       THEN /\ pc' = "done"
            /\ UNCHANGED <<phase, status, currentFocus, activeSpecialists,
                           completedTasks, saved>>
       ELSE /\ pc' = "turn"
            /\ status' = "Planning"
            /\ phase' = "Planning"
            /\ currentFocus' = Null
            /\ activeSpecialists' = <<>>
            /\ completedTasks' = <<>>
            /\ saved' = Snapshot("Planning", "Planning", Null, <<>>, <<>>)
    /\ assigned' = 0
    /\ cycleDelegated' = FALSE
    /\ cycleDelegation' = NoDelegation
    /\ cycleRun' = NoRun
    /\ UNCHANGED <<loopCounter, consecutiveWaitCount, pendingDirective, waitRun>>
    /\ UNCHANGED <<fsVars, callVars, histVars>>

\* variant: the newest entries are dropped
FirstTen(seq) ==
    IF Len(seq) > MaxCompletedTasks THEN SubSeq(seq, 1, MaxCompletedTasks) ELSE seq

\* simulation.js line 625: slice(-10)
LastTen(seq) ==
    IF Len(seq) > MaxCompletedTasks
    THEN SubSeq(seq, Len(seq) - MaxCompletedTasks + 1, Len(seq))
    ELSE seq

\* simulation.js line 603: slice(-9)
MaxKeptVerifications == 9

\* Array.prototype.slice(-n)
SliceLast(seq, n) == IF Len(seq) > n THEN SubSeq(seq, Len(seq) - n + 1, Len(seq)) ELSE seq

\* simulation.js lines 621-626: a completed task is recorded
PushCompletedTask(tasks, task) == LastTen(Append(tasks, task))

\* simulation.js lines 601-610: a verification is recorded
PushVerification(verifications, entry) ==
    Append(SliceLast(verifications, MaxKeptVerifications), entry)

\* variant: every specialist of the role is made idle
MakeRoleIdle(roster, index) ==
    [i \in 1..Len(roster) |->
        IF roster[i].role = roster[index].role
        THEN [roster[i] EXCEPT !.taskDescription = Null] ELSE roster[i]]

\* simulation.js line 627: specialistToExecute.taskDescription = null
MakeIdle(roster, index) == [roster EXCEPT ![index].taskDescription = Null]

\* variant: a blocked task is closed like a completed one
ReportsAnyStatus(taskStatus) == taskStatus # Null

\* simulation.js lines 614-615: taskStatus && taskStatus.type === 'TASK_COMPLETE'
ReportsComplete(taskStatus) == taskStatus = "TASK_COMPLETE"

\* variant: a specialist's CHANGE_PHASE is applied like the Orchestrator's
PhaseFromSpecialist(ph, r) ==
    IF r.asks.sys.action = "CHANGE_PHASE" THEN r.asks.sys.paramValue ELSE ph

\* simulation.js lines 519-647: of the bundle of a specialist's response only
\* fileActions, bugActions and taskStatus are acted upon; systemAction and the other
\* actions are logged (lines 522-531) and dropped, so the phase stays
PhaseAfterSpecialist(ph, r) == ph

\* simulation.js lines 488-652: the specialist's turn; line 492 lets a specialist
\* without a task description do nothing
SpecialistTurn(r) ==
    /\ pc = "specialist"
    /\ assigned # 0
    /\ LET task == activeSpecialists[assigned].taskDescription
           isComplete == ReportsComplete(r.taskStatus)
           agentMadeChanges == r.madeChanges \/ isComplete
           roster1 == IF isComplete THEN MakeIdle(activeSpecialists, assigned)
                      ELSE activeSpecialists
           done1 == IF isComplete THEN LastTen(Append(completedTasks, task))
                    ELSE completedTasks
       IN  IF Falsy(task)
           THEN UNCHANGED <<activeSpecialists, completedTasks, saved, cycleRun>>
           ELSE /\ cycleRun' = [cycleRun EXCEPT !.ranSpecialist = TRUE,
                                                !.taskStatus = r.taskStatus,
                                                !.specialistFailed = r.failed,
                                                !.specialistAsked = r.asks # NoDirective]
                /\ activeSpecialists' = roster1
                /\ completedTasks' = done1
                /\ saved' = IF agentMadeChanges
                            THEN Snapshot(PhaseAfterSpecialist(phase, r), status,
                                          currentFocus, roster1, done1)
                            ELSE saved
    /\ phase' = IF Falsy(activeSpecialists[assigned].taskDescription) THEN phase
                ELSE PhaseAfterSpecialist(phase, r)
    /\ pc' = "endcycle"
    /\ UNCHANGED <<loopCounter, consecutiveWaitCount, status, currentFocus,
                   assigned, pendingDirective, waitRun, cycleDelegated, cycleDelegation>>
    /\ UNCHANGED <<fsVars, callVars, histVars>>

\* simulation.js lines 31-53 with state_manager.js lines 13-73: loadState replaces
\* the in-memory snapshot by the persisted one (every field the loop writes is
\* present in it, so no fallback of loadDatabase applies)
loadState(snapshot) ==
    /\ phase' = snapshot.phase
    /\ status' = snapshot.status
    /\ currentFocus' = snapshot.currentFocus
    /\ activeSpecialists' = snapshot.activeSpecialists
    /\ completedTasks' = snapshot.completedTasks

\* simulation.js lines 655-671: the end of the cycle
EndCycle ==
    /\ pc = "endcycle"
    /\ loadState(saved)
    /\ pc' = "turn"
    /\ assigned' = 0
    /\ cycleDelegated' = FALSE
    /\ cycleDelegation' = NoDelegation
    /\ cycleRun' = NoRun
    /\ UNCHANGED <<loopCounter, consecutiveWaitCount, saved, pendingDirective, waitRun>>
    /\ UNCHANGED <<fsVars, callVars, histVars>>

----------------------------------------------------------------------------
(* Specifications *)

LoopInit ==
    /\ pc = "goal"
    /\ loopCounter = 0
    /\ consecutiveWaitCount = 0
    /\ phase = FirstRunSnapshot.phase
    /\ status = FirstRunSnapshot.status
    /\ currentFocus = FirstRunSnapshot.currentFocus
    /\ activeSpecialists = FirstRunSnapshot.activeSpecialists
    /\ completedTasks = FirstRunSnapshot.completedTasks
    /\ saved = FirstRunSnapshot
    /\ assigned = 0
    /\ pendingDirective = NoDirective
    /\ waitRun = 0
    /\ cycleDelegated = FALSE
    /\ cycleDelegation = NoDelegation
    /\ cycleRun = NoRun

QueueInit ==
    /\ fileOperationQueue = <<>>
    /\ isProcessingQueue = FALSE
    /\ pendingFileOperations = 0
    /\ drains = {}
    /\ results = <<>>
    /\ resolveCount = <<>>
    /\ submitted = <<>>
    /\ startOrder = <<>>
    /\ doneOrder = <<>>
    /\ waiter = IdleWaiter

\* a first run: nothing recorded, no event logged
HistInit ==
    /\ fileVerifications = <<>>
    /\ savedVerifications = <<>>
    /\ conversationHistory = <<>>
    /\ savedLog = <<>>

\* no function is being checked on its own
NoCall == [fn |-> "none"]
CallInit == args = NoCall /\ returned = NoCall

\* a first run: no persisted snapshot, an empty workspace, an idle file store
Init == fsys = EmptyWorkspace /\ QueueInit /\ LoopInit /\ HistInit /\ CallInit


\* the orchestration loop
Next ==
    \/ \E goal \in {"", "g"} : InitialGoal(goal)
    \/ \E d \in Directives : OrchestratorTurn(d)
    \/ \E choice \in {"1", "2", "3-goal", "3-empty", "invalid", "error"} :
          StagnationAnswer(choice)
    \/ \E goal \in {"", "exit", "g"} : CompletePrompt(goal)
    \/ \E r \in SpecialistResponses : SpecialistTurn(r)
    \/ EndCycle

Spec == Init /\ [][Next]_vars

\* the paths given to the file store when operations are issued one at a time
FilePaths ==
    { <<>>, <<"a">>, <<"/">>, <<".">>, <<".", ".">>, <<"/", "a">>,
      <<"a", "/">>, <<"/", "/", "a">>, <<"a", ".", ".", "b">>,
      <<"a", "/", "b">>,
      <<".", ".", "/", "s", "e", "c", "r", "e", "t">>,
      <<"/", "e", "t", "c", "/", "p", "a", "s", "s", "w", "d">>,
      <<"w", "o", "r", "k", "s", "p", "a", "c", "e", "/", ".", ".", "/", ".", ".", "/", "x">>,
      WorkspacePrefix \o <<"a">> }

\* the operations given to the file store: the parser gives CREATE_DIRECTORY no content
FileOperations ==
    { [action |-> a, relativePath |-> p, content |-> c] :
         a \in {"CREATE_FILE", "MODIFY_FILE"}, p \in FilePaths, c \in {"A", Null} }
    \cup { [action |-> "CREATE_DIRECTORY", relativePath |-> p, content |-> Null] :
              p \in FilePaths }

\* the caller of simulation.js line 560: each operation is awaited before the next
SubmitAwaited(action, relativePath, content) ==
    /\ Len(submitted) < MaxFileOps
    /\ \A i \in 1..Len(submitted) : resolveCount[i] > 0
    /\ performFileAction(action, relativePath, content)
    /\ UNCHANGED <<loopVars, callVars, histVars>>

FileNext ==
    \/ \E o \in FileOperations : SubmitAwaited(o.action, o.relativePath, o.content)
    \/ \E d \in drains : InternalStep(d) /\ UNCHANGED <<loopVars, callVars, histVars>>
    \/ \E d \in drains : DrainResume(d) /\ UNCHANGED <<loopVars, callVars, histVars>>

FileSpec == Init /\ [][FileNext]_vars

\* the operations given to the file store around a modification: a file, a file in a
\* directory, and content that is text, empty, null, or undefined
ModifyPaths == { <<"a">>, <<"d", "/", "a">> }

ModifyOperations ==
    { [action |-> "MODIFY_FILE", relativePath |-> p, content |-> c] :
         p \in ModifyPaths, c \in {"A", "B", "", Null, Undefined} }
    \cup { [action |-> "CREATE_FILE", relativePath |-> p, content |-> "A"] :
              p \in ModifyPaths }
    \cup { [action |-> "CREATE_DIRECTORY", relativePath |-> <<"a">>, content |-> Null] }

ModifyNext ==
    \/ \E o \in ModifyOperations : SubmitAwaited(o.action, o.relativePath, o.content)
    \/ \E d \in drains : InternalStep(d) /\ UNCHANGED <<loopVars, callVars, histVars>>
    \/ \E d \in drains : DrainResume(d) /\ UNCHANGED <<loopVars, callVars, histVars>>

ModifySpec == Init /\ [][ModifyNext]_vars

\* callers that do not wait for each other
SubmitConcurrent(action, relativePath, content) ==
    /\ Len(submitted) < MaxSubmit
    /\ performFileAction(action, relativePath, content)
    /\ UNCHANGED <<loopVars, callVars, histVars>>

QueuePaths == { <<"a">>, <<"b">>, <<"c">>, <<".", ".", "/", "x">> }

QueueNext ==
    \/ \E action \in {"CREATE_FILE", "MODIFY_FILE"}, relativePath \in QueuePaths,
          content \in {"A", "B"} :
          SubmitConcurrent(action, relativePath, content)
    \/ \E d \in drains : InternalStep(d) /\ UNCHANGED <<loopVars, callVars, histVars>>
    \/ \E d \in drains : DrainResume(d) /\ UNCHANGED <<loopVars, callVars, histVars>>

QueueSpec == Init /\ [][QueueNext]_vars

\* The same callers with few inputs, for the liveness check: an operation that
\* succeeds, one that fails in the filesystem, one whose path is rejected
LiveOperations ==
    { [action |-> "CREATE_FILE", relativePath |-> <<"a">>, content |-> "A"],
      [action |-> "MODIFY_FILE", relativePath |-> <<"b">>, content |-> "B"],
      [action |-> "CREATE_FILE", relativePath |-> <<".", ".", "/", "x">>, content |-> "A"] }

SubmitLive(action, relativePath, content) ==
    /\ Len(submitted) < MaxLiveSubmit
    /\ performFileAction(action, relativePath, content)
    /\ UNCHANGED <<loopVars, callVars, histVars>>

QueueLiveNext ==
    \/ \E o \in LiveOperations : SubmitLive(o.action, o.relativePath, o.content)
    \/ \E d \in drains : InternalStep(d) /\ UNCHANGED <<loopVars, callVars, histVars>>
    \/ \E d \in drains : DrainResume(d) /\ UNCHANGED <<loopVars, callVars, histVars>>

\* the event loop runs every continuation that is ready, and every filesystem call
\* returns; callers are free to submit or not
QueueFairness ==
    /\ WF_vars(\E d \in drains : InternalStep(d) /\ UNCHANGED <<loopVars, callVars, histVars>>)
    /\ WF_vars(\E d \in drains : DrainResume(d) /\ UNCHANGED <<loopVars, callVars, histVars>>)

QueueLiveSpec == Init /\ [][QueueLiveNext]_vars /\ QueueFairness

\* callers that submit operations and a caller that waits for the file store
SubmitWait(action, relativePath, content) ==
    /\ Len(submitted) < MaxWaitSubmit
    /\ performFileAction(action, relativePath, content)
    /\ UNCHANGED <<loopVars, callVars, histVars>>

WaitNext ==
    \/ \E o \in LiveOperations : SubmitWait(o.action, o.relativePath, o.content)
    \/ \E d \in drains : InternalStep(d) /\ UNCHANGED <<loopVars, callVars, histVars>>
    \/ \E d \in drains : DrainResume(d) /\ UNCHANGED <<loopVars, callVars, histVars>>
    \/ \E purpose \in {"save", "reload"} :
          waitForFileOperations(purpose) /\ UNCHANGED <<loopVars, callVars, histVars>>
    \/ CheckInterval /\ UNCHANGED <<loopVars, callVars, histVars>>
    \/ AfterWait /\ UNCHANGED <<loopVars, callVars, histVars>>

\* the interval timer fires; nothing is assumed of the drain loop
WaitFairness == WF_vars(CheckInterval /\ UNCHANGED <<loopVars, callVars, histVars>>)

WaitSpec == Init /\ [][WaitNext]_vars /\ WaitFairness

\* specialists in the rosters given to findOrCreateSpecialist on its own
MaxRegistryRoster == 2

\* The rosters the loop can hold: a taskDescription is the trimmed description of a
\* delegation (empty for a blank description), or null once the task is complete
RosterEntries ==
    [role : {"Executor-Code", "Executor-Test"}, taskDescription : {Null, "", "t1"}]

Rosters ==
    UNION { [1..n -> RosterEntries] : n \in 0..MaxRegistryRoster }

\* findOrCreateSpecialist on its own: the roster and the delegation are drawn here
RegistryInit ==
    /\ fsys = EmptyWorkspace /\ QueueInit /\ LoopInit /\ HistInit
    /\ args \in [fn : {"findOrCreateSpecialist"}, roster : Rosters,
                  role : {"Executor-Code", "Executor-Test", "Manager"},
                  taskDescription : {"t2", ""}]
    /\ returned = NoCall

\* simulation.js line 323: the call
CallFindOrCreateSpecialist ==
    /\ returned = NoCall
    /\ returned' = findOrCreateSpecialist(args.roster, args.role, args.taskDescription)
    /\ UNCHANGED <<fsVars, loopVars, histVars, args>>

RegistryNext == CallFindOrCreateSpecialist

RegistrySpec == RegistryInit /\ [][RegistryNext]_vars

\* specialist turns in HistorySpec
MaxTurns == 12

\* the entry that follows the newest one of the list: entries are numbered in the
\* order they are recorded
NextEntry(seq) == IF seq = <<>> THEN 1 ELSE seq[Len(seq)] + 1

\* simulation.js lines 590-627 on their own: a specialist turn that reports its task
\* complete (complete), that ran file operations (verified), or both
RecordTurn(complete, verified) ==
    /\ loopCounter < MaxTurns
    /\ loopCounter' = loopCounter + 1
    /\ completedTasks' = IF complete
                         THEN PushCompletedTask(completedTasks, NextEntry(completedTasks))
                         ELSE completedTasks
    /\ fileVerifications' = IF verified
                            THEN PushVerification(fileVerifications,
                                                  NextEntry(fileVerifications))
                            ELSE fileVerifications
    /\ UNCHANGED <<pc, consecutiveWaitCount, phase, status, currentFocus,
                   activeSpecialists, saved, assigned, pendingDirective, waitRun,
                   cycleDelegated, cycleDelegation, cycleRun>>
    /\ args' = [fn |-> "recordTurn", complete |-> complete, verified |-> verified]
    /\ UNCHANGED <<fsVars, returned, savedVerifications, conversationHistory, savedLog>>

\* simulation.js line 462: a new goal starts the project's completedTasks afresh
NewGoal ==
    /\ completedTasks # <<>>
    /\ completedTasks' = <<>>
    /\ UNCHANGED <<pc, loopCounter, consecutiveWaitCount, phase, status, currentFocus,
                   activeSpecialists, saved, assigned, pendingDirective, waitRun,
                   cycleDelegated, cycleDelegation, cycleRun>>
    /\ UNCHANGED <<fsVars, callVars, histVars>>

HistoryNext ==
    \/ \E complete, verified \in BOOLEAN :
          (complete \/ verified) /\ RecordTurn(complete, verified)
    \/ NewGoal

HistorySpec == Init /\ [][HistoryNext]_vars

\* cycles of the main loop in LogSpec
MaxLogCycles == 18

\* config.js line 15
MAX_HISTORY_TURNS == 15

\* simulation.js lines 660-671: History Management, then loadState.  The log is cut
\* in memory (conversationHistory and db.log), nothing is saved, and loadState
\* replaces db and conversationHistory by what the persisted snapshot holds.
TruncateAndReload(history, persisted) ==
    LET cut == IF Len(history) > MAX_HISTORY_TURNS * 3
               THEN SliceLast(history, MAX_HISTORY_TURNS) ELSE history
        dbLog == cut
    IN  [conversationHistory |-> persisted, savedLog |-> persisted]

\* conversationHistory.push of one event
PushEvent(history) == Append(history, NextEntry(history))

logLoopVars == <<consecutiveWaitCount, phase, status, currentFocus, activeSpecialists,
                 completedTasks, saved, assigned, pendingDirective, waitRun,
                 cycleDelegated, cycleDelegation, cycleRun>>

\* The loop as far as the event log goes.
\* simulation.js lines 117-121: the goal is logged and the snapshot saved
LogGoal ==
    /\ pc = "goal"
    /\ conversationHistory' = PushEvent(conversationHistory)
    /\ savedLog' = conversationHistory'
    /\ pc' = "turn"
    /\ UNCHANGED <<loopCounter, logLoopVars, fileVerifications, savedVerifications,
                   fsVars, callVars>>

\* simulation.js lines 127-451: the Orchestrator's response is logged (line 159) and
\* one of the saveState calls of lines 374-448 persists the snapshot; then the
\* specialist runs, the operator is asked for the next goal, or the cycle ends
LogOrchestratorTurn(next) ==
    /\ pc = "turn"
    /\ loopCounter < MaxLogCycles
    /\ loopCounter' = loopCounter + 1
    /\ conversationHistory' = PushEvent(conversationHistory)
    /\ savedLog' = conversationHistory'
    /\ pc' = next
    /\ UNCHANGED <<logLoopVars, fileVerifications, savedVerifications,
                   fsVars, callVars>>

\* simulation.js lines 453-485: the new goal is logged and saved, and the loop
\* continues without reaching the end of the cycle
LogCompletePrompt ==
    /\ pc = "complete"
    /\ conversationHistory' = PushEvent(conversationHistory)
    /\ savedLog' = conversationHistory'
    /\ pc' = "turn"
    /\ UNCHANGED <<loopCounter, logLoopVars, fileVerifications, savedVerifications,
                   fsVars, callVars>>

\* simulation.js lines 488-652: the specialist's response is logged (line 506), a
\* verification event too when file operations ran (line 597), and the snapshot is
\* saved only if the turn made changes (line 647)
LogSpecialistTurn(verified, agentMadeChanges) ==
    /\ pc = "specialist"
    /\ conversationHistory' = IF verified THEN PushEvent(PushEvent(conversationHistory))
                              ELSE PushEvent(conversationHistory)
    /\ savedLog' = IF agentMadeChanges THEN conversationHistory' ELSE savedLog
    /\ pc' = "endcycle"
    /\ UNCHANGED <<loopCounter, logLoopVars, fileVerifications, savedVerifications,
                   fsVars, callVars>>

\* simulation.js lines 655-671: the end of the cycle
LogEndCycle ==
    /\ pc = "endcycle"
    /\ LET r == TruncateAndReload(conversationHistory, savedLog)
       IN  /\ conversationHistory' = r.conversationHistory
           /\ savedLog' = r.savedLog
    /\ pc' = "turn"
    /\ UNCHANGED <<loopCounter, logLoopVars, fileVerifications, savedVerifications,
                   fsVars, callVars>>

LogNext ==
    \/ LogGoal
    \/ \E next \in {"specialist", "complete", "endcycle"} : LogOrchestratorTurn(next)
    \/ LogCompletePrompt
    \/ \E verified, agentMadeChanges \in BOOLEAN :
          LogSpecialistTurn(verified, agentMadeChanges)
    \/ LogEndCycle

LogSpec == Init /\ [][LogNext]_vars

----------------------------------------------------------------------------
(* The action parser (action_processor.js)                                 *)
(*                                                                         *)
(* A response is the sequence of the pieces that the parser's regular      *)
(* expressions match, in document order: action markers and fenced blocks. *)
(* The k-th piece starts at offset 2k and ends just before offset 2k + 1,  *)
(* so that some text separates two pieces.                                 *)

\* pieces of a response given to parseFileActions on its own
MaxTokens == 4

Marker(type, path) == [kind |-> "marker", type |-> type, path |-> path]
Block(content) == [kind |-> "block", content |-> content]

\* match.index and match.index + match[0].length of the k-th piece
TokenIndex(k) == 2 * k
TokenEnd(k) == 2 * k + 1

\* lines 118-127, 130-139, 142-151: the action lines of one type, in document order
ActionLinesOf(text, type) ==
    LET F[k \in 0..Len(text)] ==
            IF k = 0 THEN <<>>
            ELSE IF text[k].kind = "marker" /\ text[k].type = type
                 THEN Append(F[k - 1], [type |-> type, path |-> text[k].path,
                                        index |-> TokenIndex(k), endIndex |-> TokenEnd(k)])
                 ELSE F[k - 1]
    IN  F[Len(text)]

\* Array.prototype.sort with (a, b) => a.index - b.index: a stable sort by index
InsertByIndex(sorted, line) ==
    LET before == SelectSeq(sorted, LAMBDA x : x.index <= line.index)
        after == SelectSeq(sorted, LAMBDA x : x.index > line.index)
    IN  before \o <<line>> \o after

SortByIndex(lines) ==
    LET F[k \in 0..Len(lines)] ==
            IF k = 0 THEN <<>> ELSE InsertByIndex(F[k - 1], lines[k])
    IN  F[Len(lines)]

\* lines 115-154: actionLines
ActionLines(text) ==
    SortByIndex(ActionLinesOf(text, "CREATE_FILE") \o ActionLinesOf(text, "MODIFY_FILE")
                \o ActionLinesOf(text, "CREATE_DIRECTORY"))

\* lines 159-168: contentBlocks; start keeps the offset that the used mark overwrites
ContentBlocks(text) ==
    LET F[k \in 0..Len(text)] ==
            IF k = 0 THEN <<>>
            ELSE IF text[k].kind = "block"
                 THEN Append(F[k - 1], [content |-> text[k].content,
                                        index |-> TokenIndex(k), endIndex |-> TokenEnd(k),
                                        start |-> TokenIndex(k)])
                 ELSE F[k - 1]
    IN  F[Len(text)]

\* variant: the array of an earlier call, with its used marks, is taken again when it
\* has the size of this response's
ReusedContentBlocks(text, left) ==
    IF Len(left) = Len(ContentBlocks(text)) THEN left ELSE ContentBlocks(text)

\* line 159: contentBlocks is a new array in every call, whatever array (left) an
\* earlier call filled and marked
NewContentBlocks(text, left) == ContentBlocks(text)

\* variant: the first block that is not used, wherever it starts
FirstUnusedBlock(blocks, endIndex) ==
    IF \E j \in 1..Len(blocks) : blocks[j].index # -1
    THEN CHOOSE j \in 1..Len(blocks) :
            /\ blocks[j].index # -1
            /\ \A k \in 1..(j - 1) : blocks[k].index = -1
    ELSE 0

\* lines 190-200: the first block that starts after the action line, 0 if none; a
\* used block has index -1
FirstBlockAfter(blocks, endIndex) ==
    IF \E j \in 1..Len(blocks) : blocks[j].index > endIndex
    THEN CHOOSE j \in 1..Len(blocks) :
            /\ blocks[j].index > endIndex
            /\ \A k \in 1..(j - 1) : ~(blocks[k].index > endIndex)
    ELSE 0

\* variant: the content is not trimmed before the test
IsEmpty(content) == content = ""

\* line 214: !content || content.trim() === ''
IsBlank(content) == content = "" \/ content = " "

\* lines 173-230: one action line is handled; st holds fileActions and contentBlocks,
\* and claims records which block (its offset, 0 for none) each line was given at
\* lines 190-200
HandleLine(st, line) ==
    IF line.type = "CREATE_DIRECTORY"
    THEN [st EXCEPT !.fileActions =
             Append(@, [type |-> "CREATE_DIRECTORY", path |-> line.path, content |-> Null])]
    ELSE LET j == FirstBlockAfter(st.contentBlocks, line.endIndex)
             found == j # 0
             content == IF found THEN st.contentBlocks[j].content ELSE ""
             blocks1 == IF found THEN [st.contentBlocks EXCEPT ![j].index = -1]
                        ELSE st.contentBlocks
             kept == [st EXCEPT !.contentBlocks = blocks1,
                                !.claims = Append(@, [marker |-> line.index,
                                                      markerEnd |-> line.endIndex,
                                                      block |-> IF found
                                                                THEN st.contentBlocks[j].start
                                                                ELSE 0])]
         IN  IF ~found /\ line.type = "MODIFY_FILE" THEN kept
             ELSE IF line.type = "MODIFY_FILE" /\ IsBlank(content) THEN kept
             ELSE IF \E i \in 1..Len(st.fileActions) :
                        /\ st.fileActions[i].type = line.type
                        /\ st.fileActions[i].path = line.path
             THEN kept
             ELSE [kept EXCEPT !.fileActions =
                      Append(@, [type |-> line.type, path |-> line.path,
                                 content |-> content])]

\* lines 110-234: parseFileActions; the result holds the returned fileActions and the
\* contentBlocks array as the call leaves it
parseFileActions(text, left) ==
    LET lines == ActionLines(text)
        F[k \in 0..Len(lines)] ==
            IF k = 0
            THEN [fileActions |-> <<>>, contentBlocks |-> NewContentBlocks(text, left),
                  claims |-> <<>>]
            ELSE HandleLine(F[k - 1], lines[k])
    IN  F[Len(lines)]

\* simulation.js lines 549-560: the file actions that the specialist's turn hands to
\* performFileAction
SubmittedActions(fileActions) ==
    SelectSeq(fileActions,
              LAMBDA a : ~(a.type = "MODIFY_FILE" /\ (a.content = Null \/ a.content = "")))

\* the pieces of the responses: markers of the three types on two paths, and blocks
\* with content, with blank content and with no content
Tokens ==
    { Marker(t, p) : t \in {"CREATE_FILE", "MODIFY_FILE", "CREATE_DIRECTORY"},
                     p \in {"a.txt", "b.txt"} }
    \cup { Block(c) : c \in {"A", "B", " ", ""} }

Texts == UNION { [1..n -> Tokens] : n \in 0..MaxTokens }

\* parseFileActions on its own: the response is drawn here
ParserInit ==
    /\ fsys = EmptyWorkspace /\ QueueInit /\ LoopInit /\ HistInit
    /\ args \in [fn : {"parseFileActions"}, text : Texts]
    /\ returned = NoCall

\* action_processor.js line 324 and simulation.js lines 549-560: the call, and what
\* the caller submits to the file store
CallParseFileActions ==
    /\ returned = NoCall
    /\ LET r == parseFileActions(args.text, <<>>)
       IN  returned' = [fileActions |-> r.fileActions, claims |-> r.claims,
                        operations |-> SubmittedActions(r.fileActions)]
    /\ UNCHANGED <<fsVars, loopVars, histVars, args>>

ParserNext == CallParseFileActions

ParserSpec == ParserInit /\ [][ParserNext]_vars

----------------------------------------------------------------------------
(* File markers in the two kinds of turn (MarkerSpec)                      *)
(*                                                                         *)
(* Both the Orchestrator's and the specialist's response go through        *)
(* processActions, which parses their file markers.  args holds the        *)
(* response of the turn; returned holds whose turn it is, the file actions *)
(* that the turn's loop walks through, the position of the loop, and sent: *)
(* who handed which position to performFileAction, in order.               *)

\* turns in a row, and pieces of one response
MaxMarkerTurns == 3
MaxMarkerTokens == 2

MarkerTokens ==
    { Marker(t, <<"a">>) : t \in {"CREATE_FILE", "MODIFY_FILE", "CREATE_DIRECTORY"} }
    \cup { Marker("CREATE_FILE", <<"b">>), Block("A"), Block("") }

MarkerTexts == UNION { [1..n -> MarkerTokens] : n \in 0..MaxMarkerTokens }

\* variant: the Orchestrator's file actions are walked through like a specialist's
OrchestratorSubmitsFileActions(fileActions) == fileActions

\* simulation.js lines 342-344: the Orchestrator's turn has a comment where its file
\* actions would be handled; none is handed on
OrchestratorFileActions(fileActions) == <<>>

\* every submitted operation has been answered: the await of line 560 has returned
AllAnswered == \A i \in 1..Len(submitted) : resolveCount[i] > 0

\* no turn is under way
TurnOver ==
    IF returned = NoCall THEN TRUE
    ELSE returned.next > Len(returned.fileActions) /\ AllAnswered

TurnsRun == IF returned = NoCall THEN 0 ELSE returned.turns
SentSoFar == IF returned = NoCall THEN <<>> ELSE returned.sent

\* simulation.js lines 127-451: the Orchestrator's turn on a response with file markers
MarkerOrchestratorTurn(text) ==
    /\ TurnOver
    /\ TurnsRun < MaxMarkerTurns
    /\ args' = [fn |-> "processActions", actor |-> "SuperAgent", text |-> text]
    /\ returned' = [actor |-> "SuperAgent",
                    fileActions |->
                        OrchestratorFileActions(parseFileActions(text, <<>>).fileActions),
                    next |-> 1, turns |-> TurnsRun + 1, sent |-> SentSoFar]
    /\ UNCHANGED <<fsVars, loopVars, histVars>>

\* simulation.js lines 488-548: the specialist's turn up to its loop over the file
\* actions; it follows an Orchestrator's turn of the same cycle
MarkerSpecialistTurn(text) ==
    /\ returned # NoCall
    /\ TurnOver
    /\ returned.actor = "SuperAgent"
    /\ TurnsRun < MaxMarkerTurns
    /\ args' = [fn |-> "processActions", actor |-> "Specialist", text |-> text]
    /\ returned' = [actor |-> "Specialist",
                    fileActions |-> parseFileActions(text, <<>>).fileActions,
                    next |-> 1, turns |-> TurnsRun + 1, sent |-> SentSoFar]
    /\ UNCHANGED <<fsVars, loopVars, histVars>>

\* simulation.js lines 549-577: one pass of the loop over the file actions; a
\* MODIFY_FILE without content is skipped, any other action is handed to
\* performFileAction and awaited
MarkerFileAction ==
    /\ returned # NoCall
    /\ returned.next <= Len(returned.fileActions)
    /\ AllAnswered
    /\ LET action == returned.fileActions[returned.next]
       IN  IF action.type = "MODIFY_FILE" /\ action.content \in {Null, Undefined, ""}
           THEN /\ returned' = [returned EXCEPT !.next = @ + 1]
                /\ UNCHANGED fsVars
           ELSE /\ performFileAction(action.type, action.path, action.content)
                /\ returned' =
                      [returned EXCEPT
                         !.next = @ + 1,
                         !.sent = Append(@, [actor |-> returned.actor,
                                             turn |-> returned.turns,
                                             position |-> returned.next])]
    /\ UNCHANGED <<loopVars, histVars, args>>

MarkerNext ==
    \/ \E text \in MarkerTexts : MarkerOrchestratorTurn(text)
    \/ \E text \in MarkerTexts : MarkerSpecialistTurn(text)
    \/ MarkerFileAction
    \/ \E d \in drains : InternalStep(d) /\ UNCHANGED <<loopVars, callVars, histVars>>
    \/ \E d \in drains : DrainResume(d) /\ UNCHANGED <<loopVars, callVars, histVars>>

MarkerSpec == Init /\ [][MarkerNext]_vars

\* calls of processActions in a row
MaxCalls == 3

\* the first piece of a kind (String.prototype.match without the g flag), 0 if none
FirstOf(text, kind) ==
    IF \E k \in 1..Len(text) : text[k].kind = kind
    THEN CHOOSE k \in 1..Len(text) :
            /\ text[k].kind = kind
            /\ \A j \in 1..(k - 1) : text[j].kind # kind
    ELSE 0

\* the pieces of a kind, in document order (RegExp.prototype.exec with the g flag)
AllOf(text, kind) == SelectSeq(text, LAMBDA t : t.kind = kind)

\* line 13: toUpperCase on the action names of the responses
ToUpperCase(action) == IF action = "wait" THEN "WAIT" ELSE action

\* lines 8-26
parseSystemAction(text) ==
    LET k == FirstOf(text, "system")
    IN  IF k = 0 THEN Null
        ELSE [type |-> "SYSTEM_ACTION", action |-> ToUpperCase(text[k].action),
              paramKey |-> text[k].paramKey, paramValue |-> text[k].paramValue]

\* lines 33-45
parseListDirectoryAction(text) ==
    LET k == FirstOf(text, "list")
    IN  IF k = 0 THEN Null ELSE [type |-> "LIST_DIRECTORY", path |-> text[k].path]

\* lines 52-64
parseReadFileAction(text) ==
    LET k == FirstOf(text, "read")
    IN  IF k = 0 THEN Null ELSE [type |-> "READ_FILE", path |-> text[k].path]

\* line 79: trim on the descriptions of the responses
Trim(str) == IF str = " " THEN "" ELSE str

\* lines 71-84
parseDelegateTaskAction(text) ==
    LET k == FirstOf(text, "delegate")
    IN  IF k = 0 THEN Null
        ELSE [type |-> "DELEGATE_TASK", role |-> text[k].role,
              description |-> Trim(text[k].description)]

\* lines 91-103
parseCommandAction(text) ==
    LET k == FirstOf(text, "command")
    IN  IF k = 0 THEN Null ELSE [type |-> "RUN_TEST_COMMAND", command |-> text[k].command]

\* lines 241-279: the reports, then the verifications, then the fixes
parseBugActions(text) ==
    LET found == AllOf(text, "bug")
        all == [i \in 1..Len(found) |-> [type |-> found[i].type, id |-> found[i].id]]
    IN  SelectSeq(all, LAMBDA b : b.type = "REPORT_BUG")
        \o SelectSeq(all, LAMBDA b : b.type = "VERIFY_BUG")
        \o SelectSeq(all, LAMBDA b : b.type = "FIX_BUG")

\* line 289: response.includes(completionMarker), on the task names of the responses:
\* the marker of task "t1" is also found in the text "TASK_COMPLETE: t10"
IncludesMarker(text, taskDescription) ==
    \E k \in 1..Len(text) :
        /\ text[k].kind = "complete"
        /\ \/ text[k].task = taskDescription
           \/ (text[k].task = "t10" /\ taskDescription = "t1")

\* lines 287-309
parseTaskCompletionStatus(text, taskDescription) ==
    IF IncludesMarker(text, taskDescription)
    THEN [type |-> "TASK_COMPLETE", taskDescription |-> taskDescription]
    ELSE LET k == FirstOf(text, "blocked")
         IN  IF k # 0 /\ text[k].reason # ""
             THEN [type |-> "TASK_BLOCKED", reason |-> text[k].reason,
                   taskDescription |-> taskDescription]
             ELSE Null

\* lines 317-328: processActions; left is the contentBlocks array that an earlier call
\* filled, and the result holds the bundle and the array this call leaves
processActions(text, taskDescription, left) ==
    LET parsed == parseFileActions(text, left)
    IN  [bundle |->
            [systemAction |-> parseSystemAction(text),
             listDirectoryAction |-> parseListDirectoryAction(text),
             readFileAction |-> parseReadFileAction(text),
             delegateTaskAction |-> parseDelegateTaskAction(text),
             commandAction |-> parseCommandAction(text),
             fileActions |-> parsed.fileActions,
             bugActions |-> parseBugActions(text),
             taskStatus |-> IF Falsy(taskDescription) THEN Null
                            ELSE parseTaskCompletionStatus(text, taskDescription)],
         contentBlocks |-> parsed.contentBlocks]

\* responses of the Orchestrator and of a specialist
ResponseTexts ==
    { << [kind |-> "system", action |-> "wait", paramKey |-> Null, paramValue |-> Null] >>,
      << [kind |-> "delegate", role |-> "Executor-Code", description |-> " "],
         [kind |-> "delegate", role |-> "Executor-Test", description |-> "t1"],
         [kind |-> "list", path |-> "a.txt"], [kind |-> "read", path |-> "a.txt"],
         [kind |-> "command", command |-> "c"] >>,
      << Marker("CREATE_FILE", "a.txt"), Block("A"), [kind |-> "complete", task |-> "t10"] >>,
      << Marker("MODIFY_FILE", "a.txt"), Block("B"),
         [kind |-> "bug", type |-> "FIX_BUG", id |-> "B1"],
         [kind |-> "bug", type |-> "REPORT_BUG", id |-> Null],
         [kind |-> "blocked", reason |-> "r"] >>,
      << Marker("CREATE_FILE", "b.txt"), Marker("MODIFY_FILE", "b.txt"), Block("A"),
         Block(" "), [kind |-> "blocked", reason |-> ""],
         [kind |-> "complete", task |-> "t2"] >>,
      << >> }

TaskDescriptions == {Null, "", "t1", "t2"}

CallsMade == IF args = NoCall THEN 0 ELSE args.calls

\* what each input returned when it was first given, "none" before that
NotCalled == [input \in ResponseTexts \X TaskDescriptions |-> NoCall]

\* a call of processActions (simulation.js lines 175 and 519); returned keeps the
\* bundle, the array the call leaves behind, and the first bundle of every input
CallProcessActions ==
    /\ CallsMade < MaxCalls
    /\ \E text \in ResponseTexts, taskDescription \in TaskDescriptions :
          LET left == IF returned = NoCall THEN <<>> ELSE returned.contentBlocks
              first == IF returned = NoCall THEN NotCalled ELSE returned.first
              r == processActions(text, taskDescription, left)
          IN  /\ args' = [fn |-> "processActions", text |-> text,
                          taskDescription |-> taskDescription, calls |-> CallsMade + 1]
              /\ returned' =
                    [bundle |-> r.bundle, contentBlocks |-> r.contentBlocks,
                     first |-> IF first[<<text, taskDescription>>] = NoCall
                               THEN [first EXCEPT ![<<text, taskDescription>>] =
                                        [bundle |-> r.bundle]]
                               ELSE first]
    /\ UNCHANGED <<fsVars, loopVars, histVars>>

PureNext == CallProcessActions

PureSpec == Init /\ [][PureNext]_vars

----------------------------------------------------------------------------
(* The verification records through the cycle (simulation.js)              *)

\* cycles of the loop as far as the verification records go
MaxVerifyCycles == 3
\* file operations that one specialist turn executes
MaxTurnOperations == 2

verifyLoopVars == <<consecutiveWaitCount, phase, status, currentFocus, activeSpecialists,
                    completedTasks, saved, assigned, pendingDirective, waitRun,
                    cycleDelegated, cycleDelegation, cycleRun>>

\* the results of the operations a turn executes: type, path, success, error
OperationResults ==
    { [type |-> "CREATE_FILE", path |-> "a.txt", success |-> TRUE, error |-> Null],
      [type |-> "MODIFY_FILE", path |-> "b.txt", success |-> TRUE, error |-> Null],
      [type |-> "MODIFY_FILE", path |-> "b.txt", success |-> FALSE,
       error |-> "Cannot modify non-existent file."],
      [type |-> "CREATE_FILE", path |-> "", success |-> FALSE, error |-> "Invalid path"] }

TurnResults == UNION { [1..n -> OperationResults] : n \in 0..MaxTurnOperations }

\* simulation.js line 93: the goal is set before the loop starts
VerifyGoal ==
    /\ pc = "goal"
    /\ pc' = "turn"
    /\ UNCHANGED <<loopCounter, verifyLoopVars, histVars, fsVars, callVars>>

\* simulation.js lines 127-451: the Orchestrator's turn; stateChangedInTurn is true
\* in every cycle, so the snapshot in memory is saved; then the specialist runs or
\* the cycle ends
VerifyOrchestratorTurn(next) ==
    /\ pc = "turn"
    /\ loopCounter < MaxVerifyCycles
    /\ loopCounter' = loopCounter + 1
    /\ savedVerifications' = fileVerifications
    /\ args' = NoCall
    /\ pc' = next
    /\ UNCHANGED <<verifyLoopVars, fileVerifications, conversationHistory, savedLog,
                   fsVars, returned>>

\* simulation.js lines 571, 585, 628: agentMadeChanges after the turn; otherChanges
\* stands for a bug action or a completed task
AgentMadeChanges(fileOperationResults, otherChanges) ==
    otherChanges
    \/ \E i \in 1..Len(fileOperationResults) : fileOperationResults[i].success

\* simulation.js lines 544-647: the results of the executed operations are collected
\* (563-569), recorded when there is any (590-611), and the snapshot is saved if the
\* agent made changes (647)
VerifySpecialistTurn(fileOperationResults, otherChanges) ==
    /\ pc = "specialist"
    /\ fileVerifications' =
          IF Len(fileOperationResults) > 0
          THEN PushVerification(fileVerifications,
                                [turn |-> loopCounter, results |-> fileOperationResults])
          ELSE fileVerifications
    /\ savedVerifications' =
          IF AgentMadeChanges(fileOperationResults, otherChanges)
          THEN fileVerifications' ELSE savedVerifications
    /\ args' = [fn |-> "specialistTurn", results |-> fileOperationResults,
                otherChanges |-> otherChanges]
    /\ pc' = "endcycle"
    /\ UNCHANGED <<loopCounter, verifyLoopVars, conversationHistory, savedLog, fsVars,
                   returned>>

\* simulation.js line 671 with lines 31-36: loadState replaces the snapshot in
\* memory by the persisted one
VerifyEndCycle ==
    /\ pc = "endcycle"
    /\ fileVerifications' = savedVerifications
    /\ pc' = "turn"
    /\ UNCHANGED <<loopCounter, verifyLoopVars, savedVerifications, conversationHistory,
                   savedLog, fsVars, callVars>>

VerifyNext ==
    \/ VerifyGoal
    \/ \E next \in {"specialist", "endcycle"} : VerifyOrchestratorTurn(next)
    \/ \E fileOperationResults \in TurnResults, otherChanges \in BOOLEAN :
          VerifySpecialistTurn(fileOperationResults, otherChanges)
    \/ VerifyEndCycle

VerifySpec == Init /\ [][VerifyNext]_vars

----------------------------------------------------------------------------
(* Loading and saving the snapshot file (LoadSpec)                          *)
(*                                                                          *)
(* state_manager.js reads DB_FILE, fills in what is missing, and returns    *)
(* the db object; simulation.js checks the SuperAgent record after the load *)
(* and at the top of every cycle.  A field of the file is either absent or  *)
(* present with a value; args holds the file the last load read, returned   *)
(* the db object in memory, the file as the last save left it, and the      *)
(* position of runSimulation.                                               *)

MaxLoadCycles == 2

Absent == [present |-> FALSE]
Some(value) == [present |-> TRUE, value |-> value]

\* JavaScript's !x on an id, a role or a focus
IsFalsy(x) == x \in {Undefined, Null, ""}

\* agent_templates.js: superAgentTemplate, spread with currentFocus: null
superAgentTemplate == [id |-> "SuperAgent", role |-> "SuperAgent", currentFocus |-> Null]

\* state_manager.js line 51, simulation.js lines 43, 83 and 137:
\* !db.superAgent || !db.superAgent.id || !db.superAgent.role is false
ValidSuperAgent(superAgent) ==
    /\ superAgent.present
    /\ ~IsFalsy(superAgent.value.id)
    /\ ~IsFalsy(superAgent.value.role)

\* variant: the SuperAgent record is returned as the file holds it
KeepSuperAgent(superAgent) == superAgent

\* state_manager.js lines 51-61: a missing or invalid SuperAgent is replaced by the
\* template, a valid one keeps its fields with currentFocus || null
InitializeSuperAgent(superAgent) ==
    IF ~ValidSuperAgent(superAgent)
    THEN Some(superAgentTemplate)
    ELSE Some([superAgent.value EXCEPT
                 !.currentFocus = IF IsFalsy(@) THEN Null ELSE @])

\* state_manager.js lines 79-96: the db object of a first run
FreshDatabase ==
    [companionState |-> Some([phase |-> "AWAITING_GOAL"]),
     currentProject |-> Some([status |-> "Awaiting Goal", bugs |-> Some(<<>>),
                              completedTasks |-> Some(<<>>)]),
     superAgent |-> Some(superAgentTemplate),
     activeSpecialists |-> Some(<<>>),
     log |-> Some(<<>>)]

\* state_manager.js lines 28-36: a missing project record is synthesized, a present
\* one gets empty bugs and completedTasks where they are missing
RecoverProject(currentProject) ==
    IF ~currentProject.present
    THEN Some([status |-> "Planning", bugs |-> Some(<<>>), completedTasks |-> Some(<<>>)])
    ELSE Some([currentProject.value EXCEPT
                 !.bugs = IF @.present THEN @ ELSE Some(<<>>),
                 !.completedTasks = IF @.present THEN @ ELSE Some(<<>>)])

\* state_manager.js lines 20-31: the companion state defaults to AWAITING_GOAL, and
\* a recovered project forces the phase PLANNING
RecoverCompanionState(companionState, currentProject) ==
    LET filled == IF companionState.present THEN companionState.value
                  ELSE [phase |-> "AWAITING_GOAL"]
    IN  Some(IF currentProject.present THEN filled
             ELSE [filled EXCEPT !.phase = "PLANNING"])

\* state_manager.js lines 13-99: loadDatabase.  A file that is not there gives the
\* fresh db, a file that cannot be read or parsed makes the call throw, and any
\* other file is returned with its missing fields filled in
loadDatabase(file) ==
    IF ~file.exists THEN [thrown |-> FALSE, db |-> FreshDatabase]
    ELSE IF ~file.parses THEN [thrown |-> TRUE, db |-> file.db]
    ELSE [thrown |-> FALSE,
          db |-> [companionState |->
                     RecoverCompanionState(file.db.companionState, file.db.currentProject),
                  currentProject |-> RecoverProject(file.db.currentProject),
                  superAgent |-> InitializeSuperAgent(file.db.superAgent),
                  activeSpecialists |-> IF file.db.activeSpecialists.present
                                        THEN file.db.activeSpecialists ELSE Some(<<>>),
                  log |-> IF file.db.log.present THEN file.db.log ELSE Some(<<>>)]]

\* simulation.js lines 31-53: loadState of the load model; it throws when
\* loadDatabase throws or when the SuperAgent record it returned is invalid
LoadStateOf(file) ==
    LET loaded == loadDatabase(file)
    IN  IF loaded.thrown THEN loaded
        ELSE IF ~ValidSuperAgent(loaded.db.superAgent)
             THEN [thrown |-> TRUE, db |-> loaded.db]
             ELSE [thrown |-> FALSE,
                   db |-> [loaded.db EXCEPT
                             !.activeSpecialists = IF @.present THEN @ ELSE Some(<<>>)]]

\* state_manager.js lines 106-132: saveToDatabase writes the db object unless its
\* structure is invalid, in which case the file stays as it is
saveToDatabase(data, file) ==
    IF \/ ~data.currentProject.present
       \/ ~ValidSuperAgent(data.superAgent)
       \/ ~data.companionState.present
       \/ ~data.log.present
       \/ ~data.activeSpecialists.present
    THEN file
    ELSE [exists |-> TRUE, parses |-> TRUE, db |-> data]

\* the SuperAgent records a snapshot file may hold
FileSuperAgents ==
    {Absent} \cup
    { Some([id |-> id, role |-> role, currentFocus |-> focus]) :
        id \in {Undefined, "", "SuperAgent"}, role \in {Undefined, "", "SuperAgent"},
        focus \in {Undefined, "f"} }

BusySpecialist == [role |-> "Executor-Code", taskDescription |-> "t1"]

\* the snapshot files a run may start from: none, one that does not parse, and the
\* files with any of the optional fields missing
DbFiles ==
    { [exists |-> FALSE, parses |-> FALSE, db |-> FreshDatabase],
      [exists |-> TRUE, parses |-> FALSE, db |-> FreshDatabase] } \cup
    { [exists |-> TRUE, parses |-> TRUE,
       db |-> [companionState |-> companionState, currentProject |-> currentProject,
               superAgent |-> superAgent, activeSpecialists |-> specialists,
               log |-> log]] :
        companionState \in {Absent, Some([phase |-> "AWAITING_GOAL"]),
                            Some([phase |-> "Developing"]),
                            Some([phase |-> "AWAITING_NEXT_GOAL"])},
        currentProject \in {Absent,
                            Some([status |-> "Developing", bugs |-> Absent,
                                  completedTasks |-> Absent]),
                            Some([status |-> "Developing", bugs |-> Some(<<>>),
                                  completedTasks |-> Some(<<"t0">>)])},
        superAgent \in FileSuperAgents,
        specialists \in {Absent, Some(<<>>), Some(<<BusySpecialist>>)},
        log \in {Absent, Some(<<>>)} }

\* simulation.js lines 76-86: the initialization of runSimulation: loadState, a
\* first saveState, and the check of the SuperAgent record
Initialization ==
    /\ args = NoCall
    /\ \E file \in DbFiles :
          LET loaded == LoadStateOf(file)
          IN  /\ args' = [fn |-> "loadState", file |-> file]
              /\ returned' =
                    IF loaded.thrown
                    THEN [pc |-> "exit", thrown |-> TRUE, db |-> loaded.db,
                          file |-> file, cycles |-> 0]
                    ELSE [pc |-> "goal", thrown |-> FALSE, db |-> loaded.db,
                          file |-> saveToDatabase(loaded.db, file), cycles |-> 0]
    /\ UNCHANGED <<fsVars, loopVars, histVars>>

\* simulation.js lines 94-123: with phase AWAITING_GOAL the operator is asked for the
\* goal; an empty answer ends the run, a goal resets the project, the focus and the
\* roster and is saved
LoadInitialGoal ==
    /\ args # NoCall
    /\ returned.pc = "goal"
    /\ IF returned.db.companionState.value.phase = "AWAITING_GOAL"
       THEN \E goal \in {"", "g"} :
               IF goal = ""
               THEN returned' = [returned EXCEPT !.pc = "exit"]
               ELSE LET db == [returned.db EXCEPT
                                 !.currentProject =
                                     Some([status |-> "Planning", bugs |-> Some(<<>>),
                                           completedTasks |-> Absent]),
                                 !.companionState = Some([phase |-> "Planning"]),
                                 !.superAgent =
                                     Some([@.value EXCEPT !.currentFocus = Null]),
                                 !.activeSpecialists = Some(<<>>)]
                    IN  returned' = [returned EXCEPT
                                       !.pc = "loop", !.db = db,
                                       !.file = saveToDatabase(db, returned.file)]
       ELSE returned' = [returned EXCEPT !.pc = "loop"]
    /\ UNCHANGED args
    /\ UNCHANGED <<fsVars, loopVars, histVars>>

\* simulation.js lines 127-140 and 159-671: one cycle as far as the snapshot file is
\* concerned: the check of the SuperAgent record at the top, a directive that sets a
\* focus or delegates, the saveState of the Orchestrator turn, and the loadState
\* that ends the cycle
LoadCycle ==
    /\ args # NoCall
    /\ returned.pc = "loop"
    /\ returned.cycles < MaxLoadCycles
    /\ IF ~ValidSuperAgent(returned.db.superAgent)
       THEN /\ returned' = [returned EXCEPT !.pc = "exit"]
            /\ UNCHANGED args
       ELSE \E focus \in {Null, "f"}, delegates \in BOOLEAN :
               LET db == [returned.db EXCEPT
                            !.superAgent = Some([@.value EXCEPT !.currentFocus = focus]),
                            !.activeSpecialists =
                                IF delegates /\ @.value = <<>>
                                THEN Some(<<BusySpecialist>>) ELSE @]
                   file == saveToDatabase(db, returned.file)
                   loaded == LoadStateOf(file)
               IN  /\ args' = [fn |-> "loadState", file |-> file]
                   /\ returned' =
                         [pc |-> IF loaded.thrown THEN "exit" ELSE "loop",
                          thrown |-> loaded.thrown, db |-> loaded.db, file |-> file,
                          cycles |-> returned.cycles + 1]
    /\ UNCHANGED <<fsVars, loopVars, histVars>>

LoadNext ==
    \/ Initialization
    \/ LoadInitialGoal
    \/ LoadCycle

LoadSpec == Init /\ [][LoadNext]_vars

----------------------------------------------------------------------------
(* The ids of the specialists (IdSpec)                                      *)
(*                                                                          *)
(* A specialist's id is its role and the millisecond clock at its creation. *)
(* returned holds the roster with the ids, the clock at the head of the     *)
(* cycle and the number of cycles run; args the last delegation.            *)

MaxIdCycles == 4

\* variant: a cycle follows the other without a pause
NoCycleDelay(specialistRespondedThisTurn) == 0

\* simulation.js line 658: the pause that ends a cycle, in milliseconds
CycleDelay(specialistRespondedThisTurn) ==
    IF specialistRespondedThisTurn THEN 2000 ELSE 1500

\* simulation.js line 301: `Specialist-${role}-${Date.now().toString(36)}`
NewSpecialistId(role, now) == <<"Specialist", role, now>>

\* simulation.js lines 284-315 with the ids: a created specialist gets its id
findOrCreateWithId(roster, role, taskDescription, now) ==
    LET f == findOrCreateSpecialist(roster, role, taskDescription)
    IN  IF f.index = Len(roster) + 1
        THEN [roster |-> Append(roster, [id |-> NewSpecialistId(role, now), role |-> role,
                                         taskDescription |-> taskDescription]),
              index |-> f.index]
        ELSE f

\* simulation.js lines 127-671: one cycle as far as the roster and the clock are
\* concerned.  elapsed is the time from the head of the cycle to line 301; the
\* specialist's turn is suppressed (WAIT, direct command) or leaves the specialist
\* busy or idle; a directive that ends the
\* project clears the roster and goes on to the next cycle without the pause
\* (line 483), any other cycle ends with the pause of line 658.
IdCycle ==
    /\ CallsMade < MaxIdCycles
    /\ \E g \in Delegations, elapsed \in {0, 1},
          outcome \in {"none", "suppressed", "TASK_COMPLETE", "AWAITING_NEXT_GOAL"} :
          LET roster == IF returned = NoCall THEN <<>> ELSE returned.roster
              now == (IF returned = NoCall THEN 0 ELSE returned.now) + elapsed
              f == IF g = NoDelegation THEN [roster |-> roster, index |-> 0]
                   ELSE findOrCreateWithId(roster, g.role, g.description, now)
              ran == f.index # 0 /\ outcome \notin {"suppressed", "AWAITING_NEXT_GOAL"}
          IN  /\ args' = [fn |-> "findOrCreateSpecialist", role |-> g.role,
                          created |-> Len(f.roster) > Len(roster),
                          calls |-> CallsMade + 1]
              /\ returned' =
                    IF outcome = "AWAITING_NEXT_GOAL"
                    THEN [roster |-> <<>>, now |-> now]
                    ELSE [roster |-> IF ran /\ outcome = "TASK_COMPLETE"
                                     THEN MakeIdle(f.roster, f.index) ELSE f.roster,
                          now |-> now + CycleDelay(ran)]
    /\ UNCHANGED <<fsVars, loopVars, histVars>>

IdNext == IdCycle

IdSpec == Init /\ [][IdNext]_vars

----------------------------------------------------------------------------
(* What the Orchestrator is shown of the cycle before (ContextSpec)         *)
(*                                                                          *)
(* lastExecutorEvent is a variable of runSimulation, lastConsoleOutput one  *)
(* too, mirrored in db.companionState and in the snapshot file.  returned   *)
(* holds them with the position of the loop; args holds what the last call  *)
(* of generateSuperAgentContext was given.  A console output is named by    *)
(* the cycle whose command wrote it, 0 standing for null.  lastSpecialist   *)
(* and lastCommand record the last specialist turn and the cycle of the     *)
(* last command, and are never cleared.                                     *)

MaxContextCycles == 4

NoEvent == [actor |-> Null, event |-> Null, turn |-> 0]

\* variant: the event stays after the Orchestrator has seen it
KeepAfterSeen(lastExecutorEvent) == lastExecutorEvent

\* simulation.js line 162: lastExecutorEvent = null
ClearAfterSeen(lastExecutorEvent) == NoEvent

\* variant: the console output is left out of what is saved
UnsavedConsoleOutput(lastConsoleOutput) == 0

\* simulation.js line 58: db.companionState.lastConsoleOutput = lastConsoleOutput,
\* then saveToDatabase(db)
SavedConsoleOutput(lastConsoleOutput) == lastConsoleOutput

\* what a directive amounts to here: WAIT or REQUEST_USER_INPUT (skip), a direct
\* command, a listing or read, a valid delegation, the completion of the project
ContextDirectives ==
    [skip : BOOLEAN, command : BOOLEAN, listOrRead : BOOLEAN, delegate : BOOLEAN,
     completes : BOOLEAN]

\* simulation.js lines 76-123: a first run with its goal set
ContextStart ==
    /\ returned = NoCall
    /\ returned' = [pc |-> "turn", cycles |-> 0, lastExecutorEvent |-> NoEvent,
                    lastConsoleOutput |-> 0, dbConsoleOutput |-> 0,
                    savedConsoleOutput |-> 0, lastSpecialist |-> NoEvent,
                    lastCommand |-> 0]
    /\ UNCHANGED args
    /\ UNCHANGED <<fsVars, loopVars, histVars>>

\* simulation.js lines 127-451: the Orchestrator's turn.  The context is built from
\* db and lastExecutorEvent (line 146), both console outputs are cleared (line 151),
\* the event is cleared (line 162); a command that is run writes its output and
\* saves (lines 438-442), and without it the save of line 374, 403 or 433 runs
ContextOrchestratorTurn(d) ==
    /\ returned # NoCall
    /\ returned.pc = "turn"
    /\ returned.cycles < MaxContextCycles
    /\ LET turn == returned.cycles + 1
           consoleCommandToRun == ~d.skip /\ d.command
           output == IF consoleCommandToRun THEN turn ELSE 0
       IN  /\ args' = [fn |-> "generateSuperAgentContext",
                       lastSpecialistEvent |-> returned.lastExecutorEvent,
                       lastConsoleOutput |-> returned.dbConsoleOutput,
                       turn |-> turn]
           /\ returned' =
                 [returned EXCEPT
                    !.cycles = turn,
                    !.lastExecutorEvent = ClearAfterSeen(@),
                    !.lastConsoleOutput = output,
                    !.dbConsoleOutput = SavedConsoleOutput(output),
                    !.savedConsoleOutput = SavedConsoleOutput(output),
                    !.lastCommand = IF consoleCommandToRun THEN turn ELSE @,
                    !.pc = IF d.completes THEN "complete"
                           ELSE IF d.delegate /\ ~consoleCommandToRun /\ ~d.skip
                           THEN "specialist" ELSE "endcycle"]
    /\ UNCHANGED <<fsVars, loopVars, histVars>>

\* simulation.js lines 453-485: the next goal; db.companionState is replaced, and
\* saveState writes lastConsoleOutput into it again; the loop continues at once
ContextCompletePrompt(goal) ==
    /\ returned # NoCall
    /\ returned.pc = "complete"
    /\ returned' =
          IF goal \in {"", "exit"} THEN [returned EXCEPT !.pc = "done"]
          ELSE [returned EXCEPT
                  !.pc = "turn",
                  !.dbConsoleOutput = SavedConsoleOutput(returned.lastConsoleOutput),
                  !.savedConsoleOutput = SavedConsoleOutput(returned.lastConsoleOutput)]
    /\ UNCHANGED args
    /\ UNCHANGED <<fsVars, loopVars, histVars>>

\* simulation.js lines 488-652: the specialist's turn; its event is kept for the next
\* context (line 508), and the snapshot is saved if the turn made changes (line 647)
ContextSpecialistTurn(event, agentMadeChanges) ==
    /\ returned # NoCall
    /\ returned.pc = "specialist"
    /\ LET specialistEventLog ==
              [actor |-> "Specialist", event |-> event, turn |-> returned.cycles]
       IN  returned' =
              [returned EXCEPT
                 !.pc = "endcycle",
                 !.lastExecutorEvent = specialistEventLog,
                 !.lastSpecialist = specialistEventLog,
                 !.dbConsoleOutput =
                     IF agentMadeChanges
                     THEN SavedConsoleOutput(returned.lastConsoleOutput) ELSE @,
                 !.savedConsoleOutput =
                     IF agentMadeChanges
                     THEN SavedConsoleOutput(returned.lastConsoleOutput) ELSE @]
    /\ UNCHANGED args
    /\ UNCHANGED <<fsVars, loopVars, histVars>>

\* simulation.js lines 655-671 with lines 32-39: the end of the cycle; loadState
\* takes db and lastConsoleOutput from the snapshot file and leaves
\* lastExecutorEvent alone
ContextEndCycle ==
    /\ returned # NoCall
    /\ returned.pc = "endcycle"
    /\ returned' = [returned EXCEPT
                      !.pc = "turn",
                      !.dbConsoleOutput = returned.savedConsoleOutput,
                      !.lastConsoleOutput = returned.savedConsoleOutput]
    /\ UNCHANGED args
    /\ UNCHANGED <<fsVars, loopVars, histVars>>

ContextNext ==
    \/ ContextStart
    \/ \E d \in ContextDirectives : ContextOrchestratorTurn(d)
    \/ \E goal \in {"", "g"} : ContextCompletePrompt(goal)
    \/ \E event \in {"TASK_BLOCKED", "TASK_COMPLETE", "[AI Error"},
          agentMadeChanges \in BOOLEAN :
          ContextSpecialistTurn(event, agentMadeChanges)
    \/ ContextEndCycle

ContextSpec == Init /\ [][ContextNext]_vars

----------------------------------------------------------------------------
(* The length of a run (RunSpec)                                            *)
(*                                                                          *)
(* returned holds the position of runSimulation, its loopCounter, and turns,*)
(* the number of inference calls made for the Orchestrator.  Every await of *)
(* the loop is taken to return.                                             *)

\* simulation.js line 127: while (loopCounter < 100)
LoopLimit == 100

\* variant: the loop runs while the counter is at most the limit
LoopGuardInclusive(counter) == counter <= LoopLimit

\* simulation.js line 127: the condition of the main loop
LoopGuard(counter) == counter < LoopLimit

\* simulation.js lines 127-128 and 676-677: the loop is entered again with the
\* counter raised, or left, and then the operator interface is closed
AtLoopGuard(run) ==
    IF LoopGuard(run.loopCounter)
    THEN [run EXCEPT !.pc = "turn", !.loopCounter = @ + 1]
    ELSE [run EXCEPT !.pc = "closed"]

\* simulation.js lines 76-126: initialization and the first goal; a failure or an
\* empty goal closes the operator interface and returns
RunStart(ok) ==
    /\ returned = NoCall
    /\ returned' = IF ok THEN AtLoopGuard([pc |-> "start", loopCounter |-> 0, turns |-> 0])
                   ELSE [pc |-> "closed", loopCounter |-> 0, turns |-> 0]
    /\ UNCHANGED args
    /\ UNCHANGED <<fsVars, loopVars, histVars>>

\* simulation.js lines 129-485 up to the completion prompt: the loop is left before
\* the inference call (lines 139, 147) or at the operator's choice (lines 189-259),
\* or the turn ends at the completion prompt, before a specialist's turn, or at the
\* end of the cycle
RunOrchestratorTurn(outcome) ==
    /\ returned # NoCall
    /\ returned.pc = "turn"
    /\ returned' =
          IF outcome = "break early" THEN [returned EXCEPT !.pc = "closed"]
          ELSE [returned EXCEPT
                  !.turns = @ + 1,
                  !.pc = IF outcome = "break" THEN "closed" ELSE outcome]
    /\ UNCHANGED args
    /\ UNCHANGED <<fsVars, loopVars, histVars>>

\* simulation.js lines 453-485: the operator leaves, or gives a goal and the loop
\* continues
RunCompletePrompt(goal) ==
    /\ returned # NoCall
    /\ returned.pc = "complete"
    /\ returned' = IF goal \in {"", "exit"} THEN [returned EXCEPT !.pc = "closed"]
                   ELSE AtLoopGuard(returned)
    /\ UNCHANGED args
    /\ UNCHANGED <<fsVars, loopVars, histVars>>

\* simulation.js lines 488-652: the specialist's turn; a context that cannot be built
\* continues the loop at once (line 495)
RunSpecialistTurn(contextError) ==
    /\ returned # NoCall
    /\ returned.pc = "specialist"
    /\ returned' = IF contextError THEN AtLoopGuard(returned)
                   ELSE [returned EXCEPT !.pc = "endcycle"]
    /\ UNCHANGED args
    /\ UNCHANGED <<fsVars, loopVars, histVars>>

\* simulation.js lines 655-674: the delay, the wait for the file store, the reload
RunEndCycle ==
    /\ returned # NoCall
    /\ returned.pc = "endcycle"
    /\ returned' = AtLoopGuard(returned)
    /\ UNCHANGED args
    /\ UNCHANGED <<fsVars, loopVars, histVars>>

RunNext ==
    \/ \E ok \in BOOLEAN : RunStart(ok)
    \/ \E outcome \in {"break early", "break", "complete", "specialist", "endcycle"} :
          RunOrchestratorTurn(outcome)
    \/ \E goal \in {"", "exit", "g"} : RunCompletePrompt(goal)
    \/ \E contextError \in BOOLEAN : RunSpecialistTurn(contextError)
    \/ RunEndCycle

\* every inference call, prompt and wait returns: a run that can go on does
RunSpec == Init /\ [][RunNext]_vars /\ WF_vars(RunNext)

----------------------------------------------------------------------------
(* Claims about the orchestration loop (Spec) *)

AwaitingNextGoal == "AWAITING_NEXT_GOAL"

\* C1: every Orchestrator directive that is not a WAIT system action resets the
\* consecutive-WAIT counter to 0: whenever the last directive was not a WAIT
\* (waitRun = 0), consecutiveWaitCount is 0.
C1_NonWaitDirectiveResets ==
    (pc # "stagnation" /\ waitRun = 0) => consecutiveWaitCount = 0

\* C2: the operator is prompted during the fifth of five consecutive WAIT cycles and
\* never with fewer: whenever the stagnation prompt is up, the run of WAIT directives
\* that ends with the current cycle has length five.
C2_PromptOnFifthConsecutiveWait ==
    pc = "stagnation" => waitRun = WaitThreshold

\* C3: no persisted snapshot has project.status = "Completed" together with a phase
\* other than AWAITING_NEXT_GOAL.
C3_CompletedForcesAwaitingNextGoal ==
    saved.status = "Completed" => saved.phase = AwaitingNextGoal

\* C4: whenever phase is AWAITING_NEXT_GOAL, project.status is "Completed",
\* orchestrator.currentFocus is null and the roster is empty; the same holds of the
\* persisted snapshot, and when the operator is asked for the next goal the snapshot
\* with these values has been persisted.
C4_AwaitingNextGoalClears ==
    /\ phase = AwaitingNextGoal =>
         status = "Completed" /\ currentFocus = Null /\ activeSpecialists = <<>>
    /\ saved.phase = AwaitingNextGoal =>
         /\ saved.status = "Completed"
         /\ saved.currentFocus = Null
         /\ saved.activeSpecialists = <<>>
    /\ (pc = "complete" /\ phase = AwaitingNextGoal) =>
         saved = Snapshot(phase, status, currentFocus, activeSpecialists, completedTasks)

\* C4 witness: the operator is about to be asked for the next goal after a directive
\* that moved the phase to AWAITING_NEXT_GOAL and also delegated a task.
C4_Witness ==
    pc = "complete" /\ phase = AwaitingNextGoal /\ cycleDelegated

----------------------------------------------------------------------------
(* Claims about the file store (FileSpec, QueueSpec, QueueLiveSpec) *)

Returned == { d \in drains : d.stage = "returned" }

InvalidPathResult == Fail("Invalid path")

DotDotSecret == <<".", ".", "/", "s", "e", "c", "r", "e", "t">>
EtcPasswd == <<"/", "e", "t", "c", "/", "p", "a", "s", "s", "w", "d">>

\* the path has a ".." segment
HasParentSegment(p) == \E i \in 1..Len(Split(p)) : Split(p)[i] = <<".", ".">>

\* where an accepted operation writes
Target(relativePath) == Resolve(PROJECT_WORKSPACE, NormalizePath(relativePath))

\* C5 (as stated): every operation on an absolute path or on a path with a
\* parent-directory segment returns success=false with the "Invalid path" error and
\* leaves the filesystem unchanged.
C5_AbsoluteAndParentPathsRejected ==
    \A d \in Returned :
        (isAbsolute(d.op.relativePath) \/ HasParentSegment(d.op.relativePath)) =>
            d.result = InvalidPathResult /\ fsys = d.pre

\* C5 (amended): every operation on an empty path, on a path that contains "..", or
\* on a path that starts with "//" returns success=false with the "Invalid path"
\* error and leaves the filesystem unchanged; an operation on a path with one
\* leading "/" that is not the "/workspace/" form is not rejected as invalid: it has
\* the result and the effect of the operation on the path without that slash.
C5_InvalidPathsRejected ==
    \A d \in Returned :
        LET p == d.op.relativePath
            r == performFileActionInternal(d.op.action, Substring(p, 1), d.op.content, d.pre)
        IN  /\ (p = <<>> \/ Includes(p, <<".", ".">>) \/ StartsWith(p, <<"/", "/">>)) =>
                  d.result = InvalidPathResult /\ fsys = d.pre
            /\ (isAbsolute(p) /\ ~StartsWith(p, <<"/", "/">>)
                  /\ ~StartsWith(p, WorkspacePrefix)) =>
                  d.result = r.result /\ fsys = r.fs
            /\ (p = EtcPasswd /\ ~InvalidPath(Substring(p, 1))) =>
                  d.result.error # "Invalid path"

\* C5 witness: "../secret" was rejected, then CREATE_FILE "/etc/passwd" succeeded.
C5_Witness ==
    /\ Len(submitted) = 2
    /\ submitted[1].relativePath = DotDotSecret
    /\ results[1] = InvalidPathResult
    /\ \E d \in Returned :
          /\ d.op.relativePath = EtcPasswd
          /\ d.op.action = "CREATE_FILE"
          /\ d.result.success
          /\ fsys # d.pre

\* C6: every operation that reports success has its target inside the workspace root
\* (or the root itself), and nothing outside the workspace root is created or changed.
C6_NothingOutsideWorkspace ==
    /\ \A p \in DOMAIN fsys :
          InsideWorkspace(p) \/ (p \in DOMAIN EmptyWorkspace /\ fsys[p] = DirNode)
    /\ \A d \in Returned :
          d.result.success => InsideWorkspace(Target(d.op.relativePath))

\* C6 witness: an operation given a path with a leading slash succeeded and changed
\* the filesystem.
C6_Witness ==
    \E d \in Returned :
        d.result.success /\ fsys # d.pre /\ isAbsolute(d.op.relativePath)

\* C7: an operation on "/workspace/" + p, p a valid relative path, has the success
\* flag and the filesystem effect of the operation on p.
C7_WorkspacePrefixStripped ==
    \A d \in Returned :
        LET p == Substring(d.op.relativePath, Len(WorkspacePrefix))
            r == performFileActionInternal(d.op.action, p, d.op.content, d.pre)
        IN  (StartsWith(d.op.relativePath, WorkspacePrefix) /\ ~InvalidPath(p)) =>
                d.result.success = r.result.success /\ fsys = r.fs

\* C26: MODIFY_FILE on a path that does not exist, or with null or undefined content,
\* returns success=false and leaves the filesystem as it was; MODIFY_FILE on an
\* existing file with content returns success=true and leaves the filesystem as it
\* was but for that file, which holds exactly the content given.
C26_ModifyFile ==
    \A d \in Returned :
        LET abs == Target(d.op.relativePath)
            missing == abs \notin DOMAIN d.pre
            noContent == d.op.given \in {Null, Undefined}
        IN  d.op.action = "MODIFY_FILE" =>
              /\ (missing \/ noContent) => ~d.result.success /\ fsys = d.pre
              /\ (~missing /\ ~noContent /\ d.pre[abs].kind = "file") =>
                    /\ d.result.success
                    /\ fsys = [d.pre EXCEPT ![abs] = FileNode(d.op.given)]

InOrder(ids) == \A i \in 1..Len(ids) : ids[i] = i

ValidQueuePaths == { <<"a">>, <<"b">>, <<"c">> }

DistinctCreates ==
    /\ \A i \in 1..Len(submitted) :
          submitted[i].action = "CREATE_FILE" /\ submitted[i].relativePath \in ValidQueuePaths
    /\ \A i, j \in 1..Len(submitted) :
          i # j => submitted[i].relativePath # submitted[j].relativePath

C9_OneInFlight ==
    /\ Cardinality(drains) <= 1
    /\ pendingFileOperations \in {0, 1}
    /\ pendingFileOperations = Cardinality(drains)
    /\ isProcessingQueue <=> drains # {}

\* C9 witness: two submissions arrived while an operation was in flight.
C9_Witness ==
    Cardinality(drains) = 1 /\ Len(fileOperationQueue) = 2

\* C10: every submitted operation is eventually taken from the queue and its
\* caller's promise is resolved, exactly once, with the result of that operation.
C10_EveryOperationResolved ==
    /\ [](\A i \in 1..Len(submitted) :
            /\ resolveCount[i] <= 1
            /\ resolveCount[i] = 1 =>
                 LET rel == NormalizePath(submitted[i].relativePath)
                 IN  IF PathCheck(rel) # Null
                     THEN results[i] = Fail(PathCheck(rel))
                     ELSE results[i].success => results[i].path = rel)
    /\ \A i \in 1..MaxLiveSubmit :
          (Len(submitted) >= i) ~> (Len(submitted) >= i /\ resolveCount[i] = 1)

\* C10 witness: the first operation has been resolved, and the drain loop is coming
\* back from an operation that failed while a later submission, pushed while the
\* loop was busy, waits in the queue.
C10_Witness ==
    /\ Len(submitted) = MaxLiveSubmit
    /\ resolveCount[1] = 1
    /\ fileOperationQueue # <<>>
    /\ \E d \in Returned : ~d.result.success

----------------------------------------------------------------------------
(* Claims about waitForFileOperations (WaitSpec) *)

\* C11: waitForFileOperations resolves to true only at a moment when the queue is
\* empty and no operation is in flight; a call that has to poll always resolves, to
\* false when the timeout passes first and never before it; and the caller saves or
\* reloads the snapshot only after the wait has resolved.
C11_WaitForFileOperations ==
    /\ [](waiter.result = "true" => waiter.inFlight = 0 /\ waiter.queued = 0)
    /\ [](waiter.result = "false" => waiter.ticks > MaxWaitTicks)
    /\ (waiter.pc = "polling") ~> (waiter.pc = "resolved")
    /\ [][(waiter.pc # "idle" /\ waiter'.pc = "idle") => waiter.pc = "resolved"]_vars

\* C11 witness: a wait that found operations pending resolved to true after polling.
C11_Witness ==
    waiter.pc = "resolved" /\ waiter.result = "true" /\ waiter.ticks > 0

----------------------------------------------------------------------------
(* Claims about the specialist registry (RegistrySpec, Spec) *)

\* the specialists of the role whose taskDescription is null
IdleByNull(roster, role) ==
    { i \in 1..Len(roster) : roster[i].role = role /\ roster[i].taskDescription = Null }

\* C12: a delegation to a registered role reuses a specialist of that role whose
\* taskDescription is null, in place and with the roster size unchanged; when there
\* is none, exactly one specialist with the role and the task is appended and no
\* existing specialist is modified.
C12_ReuseIdleOrAppend ==
    (returned # NoCall /\ args.role \in RegisteredRoles) =>
        LET roster == args.roster
            out == returned.roster
            i == returned.index
        IN  IF IdleByNull(roster, args.role) # {}
            THEN /\ Len(out) = Len(roster)
                 /\ i \in IdleByNull(roster, args.role)
                 /\ out = [roster EXCEPT ![i].taskDescription = args.taskDescription]
            ELSE /\ Len(out) = Len(roster) + 1
                 /\ i = Len(out)
                 /\ out = Append(roster, [role |-> args.role,
                                          taskDescription |-> args.taskDescription])

\* the current cycle's directive delegated to a role that is not registered
UnregisteredDelegation(g) == g # NoDelegation /\ g.role \notin RegisteredRoles

\* C13: a DELEGATE_TASK to a role that is not registered leaves the roster as it is
\* (apart from the clearing that a move to AWAITING_NEXT_GOAL in the same directive
\* does) and no specialist turn runs in that cycle; every specialist in the roster,
\* in memory and persisted, has a registered role.
C13_UnregisteredRoleRejected ==
    /\ [](\A i \in 1..Len(activeSpecialists) :
             activeSpecialists[i].role \in RegisteredRoles)
    /\ [](\A i \in 1..Len(saved.activeSpecialists) :
             saved.activeSpecialists[i].role \in RegisteredRoles)
    /\ [](UnregisteredDelegation(cycleDelegation) => pc # "specialist" /\ assigned = 0)
    /\ [][(UnregisteredDelegation(cycleDelegation') /\ pc \in {"turn", "stagnation"}
            /\ pc' \notin {"turn", "stagnation"}) =>
              \/ activeSpecialists' = activeSpecialists
              \/ phase' = AwaitingNextGoal /\ activeSpecialists' = <<>>]_vars

\* C13 witness: a cycle whose directive delegated to an unregistered role ends with
\* the roster it began with, which holds a specialist.
C13_Witness ==
    /\ pc = "endcycle"
    /\ UnregisteredDelegation(cycleDelegation)
    /\ activeSpecialists # <<>>

----------------------------------------------------------------------------
(* Claims about the bounded histories (HistorySpec, LogSpec) *)

\* the entries are in the order they were recorded, none missing between them
InInsertionOrder(seq) == \A i \in 1..(Len(seq) - 1) : seq[i + 1] = seq[i] + 1

\* C14: completedTasks and fileVerifications never hold more than 10 entries; the
\* entries keep their insertion order, and an entry added to a full list evicts the
\* oldest one only.
C14_HistoriesBounded ==
    /\ [](Len(completedTasks) <= 10 /\ Len(fileVerifications) <= 10)
    /\ [](InInsertionOrder(completedTasks) /\ InInsertionOrder(fileVerifications))
    /\ [][(loopCounter' = loopCounter + 1 /\ args'.complete) =>
              completedTasks' =
                 Append(IF Len(completedTasks) = 10 THEN Tail(completedTasks)
                        ELSE completedTasks, NextEntry(completedTasks))]_vars
    /\ [][(loopCounter' = loopCounter + 1 /\ args'.verified) =>
              fileVerifications' =
                 Append(IF Len(fileVerifications) = 10 THEN Tail(fileVerifications)
                        ELSE fileVerifications, NextEntry(fileVerifications))]_vars

\* C14 witness: an eleventh entry has been added to both lists.
C14_Witness ==
    /\ Len(completedTasks) = 10 /\ completedTasks[1] = 2
    /\ Len(fileVerifications) = 10 /\ fileVerifications[1] = 2

\* C15: the event log is bounded across cycles: the log that a cycle starts with
\* after the end of the previous cycle, in memory and in the persisted snapshot, has
\* at most 3 x MAX_HISTORY_TURNS entries.
C15_EventLogBounded ==
    [][(pc = "endcycle" /\ pc' = "turn") =>
          /\ Len(conversationHistory') <= 3 * MAX_HISTORY_TURNS
          /\ Len(savedLog') <= 3 * MAX_HISTORY_TURNS]_vars

----------------------------------------------------------------------------
(* Claims about the action parser (ParserSpec)                             *)

\* offsets of the CREATE_FILE and MODIFY_FILE markers, and of the fenced blocks, of a
\* response
FileMarkerOffsets(text) ==
    { TokenIndex(k) : k \in { i \in 1..Len(text) :
                                 /\ text[i].kind = "marker"
                                 /\ text[i].type \in {"CREATE_FILE", "MODIFY_FILE"} } }

BlockOffsets(text) ==
    { TokenIndex(k) : k \in { i \in 1..Len(text) : text[i].kind = "block" } }

Least(S) == CHOOSE x \in S : \A y \in S : x <= y

\* the response of the example: CREATE_FILE a.txt, block A, MODIFY_FILE b.txt, block B
ExampleText ==
    << Marker("CREATE_FILE", "a.txt"), Block("A"),
       Marker("MODIFY_FILE", "b.txt"), Block("B") >>

\* C17: parseFileActions handles the CREATE_FILE and MODIFY_FILE markers in document
\* order; each marker is given the first fenced block, not yet given to an earlier
\* marker, whose start offset is greater than the marker's end offset (none when there
\* is no such block); no block is given to two markers; and the example response
\* yields exactly (CREATE_FILE, a.txt, A) and (MODIFY_FILE, b.txt, B), in that order.
C17_MarkersClaimBlocksInOrder ==
    returned # NoCall =>
        LET c == returned.claims
            text == args.text
        IN  /\ Len(c) = Cardinality(FileMarkerOffsets(text))
            /\ \A i \in 1..Len(c) : c[i].marker \in FileMarkerOffsets(text)
            /\ \A i, j \in 1..Len(c) : i < j => c[i].marker < c[j].marker
            /\ \A i \in 1..Len(c) :
                  LET free == { b \in BlockOffsets(text) :
                                  /\ b > c[i].markerEnd
                                  /\ \A j \in 1..(i - 1) : c[j].block # b }
                  IN  c[i].block = IF free = {} THEN 0 ELSE Least(free)
            /\ \A i, j \in 1..Len(c) : (i # j /\ c[i].block # 0) => c[i].block # c[j].block
            /\ text = ExampleText =>
                  returned.fileActions =
                      << [type |-> "CREATE_FILE", path |-> "a.txt", content |-> "A"],
                         [type |-> "MODIFY_FILE", path |-> "b.txt", content |-> "B"] >>

\* the example response has been parsed
C17_Witness ==
    /\ returned # NoCall
    /\ args.text = ExampleText
    /\ Len(returned.claims) = 2
    /\ returned.claims[1].block # 0
    /\ returned.claims[2].block # 0

\* the marker that a recorded claim belongs to, and the content of the block it was
\* given
MarkerOf(text, c) == text[c.marker \div 2]
GivenContent(text, c) == text[c.block \div 2].content

\* missing, empty or whitespace-only content
NoContent == {Null, "", " "}

\* C18: no MODIFY_FILE action with missing, empty or whitespace-only content is
\* returned by parseFileActions or handed to the file store; a MODIFY_FILE marker that
\* is given no block, or a whitespace-only one, yields no file action (every returned
\* MODIFY_FILE action carries the content of a block given to a MODIFY_FILE marker on
\* its path, and there is none when no marker on the path was given such a block);
\* a CREATE_FILE marker that is given no block, the first CREATE_FILE marker on its
\* path, yields the action with empty content.
C18_NoEmptyModify ==
    returned # NoCall =>
        LET c == returned.claims
            text == args.text
            fa == returned.fileActions
            ops == returned.operations
        IN  /\ \A i \in 1..Len(fa) :
                  fa[i].type = "MODIFY_FILE" => fa[i].content \notin NoContent
            /\ \A i \in 1..Len(ops) :
                  ops[i].type = "MODIFY_FILE" => ops[i].content \notin NoContent
            /\ \A i \in 1..Len(fa) :
                  fa[i].type = "MODIFY_FILE" =>
                      \E k \in 1..Len(c) :
                          /\ MarkerOf(text, c[k]) = Marker("MODIFY_FILE", fa[i].path)
                          /\ c[k].block # 0
                          /\ GivenContent(text, c[k]) = fa[i].content
            /\ \A k \in 1..Len(c) :
                  LET m == MarkerOf(text, c[k])
                  IN  (/\ m.type = "MODIFY_FILE"
                       /\ \A j \in 1..Len(c) :
                             MarkerOf(text, c[j]) = m =>
                                 \/ c[j].block = 0
                                 \/ GivenContent(text, c[j]) \in NoContent)
                      => ~\E i \in 1..Len(fa) :
                             fa[i].type = "MODIFY_FILE" /\ fa[i].path = m.path
            /\ \A k \in 1..Len(c) :
                  LET m == MarkerOf(text, c[k])
                  IN  (/\ m.type = "CREATE_FILE"
                       /\ c[k].block = 0
                       /\ \A j \in 1..(k - 1) : MarkerOf(text, c[j]) # m)
                      => \E i \in 1..Len(fa) :
                             fa[i] = [type |-> "CREATE_FILE", path |-> m.path,
                                      content |-> ""]

\* a response where a MODIFY_FILE marker has no block left, another was given a
\* whitespace-only block, and a CREATE_FILE marker with no block gave an empty file
C18_Witness ==
    /\ returned # NoCall
    /\ args.text = << Marker("MODIFY_FILE", "a.txt"), Block(" "),
                      Marker("MODIFY_FILE", "b.txt"), Marker("CREATE_FILE", "a.txt") >>
    /\ returned.fileActions =
           << [type |-> "CREATE_FILE", path |-> "a.txt", content |-> ""] >>
    /\ returned.operations = returned.fileActions

\* C19: the file actions parsed from one response hold no two actions with the same
\* (type, path), whether CREATE_FILE, MODIFY_FILE or CREATE_DIRECTORY: of a repeated
\* marker only the first occurrence is kept.
C19_NoDuplicateActions ==
    returned # NoCall =>
        \A i, j \in 1..Len(returned.fileActions) :
            (/\ returned.fileActions[i].type = returned.fileActions[j].type
             /\ returned.fileActions[i].path = returned.fileActions[j].path) => i = j

----------------------------------------------------------------------------
(* Claims about the cycle (Spec)                                           *)

\* C20: every cycle has exactly one Orchestrator inference call (the cycle counter
\* moves by one with the call, at the start of the cycle, and a new cycle starts only
\* when the cycle has ended) and at most one specialist turn (the turn is entered
\* straight from the Orchestrator's turn of the same cycle and ends the cycle); when
\* the specialist's turn starts, the directive's state changes are applied and saved,
\* and the specialist that runs has the role and the task description of the
\* delegation of that directive.
C20_OneDecisionOneExecution ==
    /\ [][loopCounter' # loopCounter =>
             pc = "turn" /\ loopCounter' = loopCounter + 1 /\ pc' # "turn"]_vars
    /\ [][(pc = "turn" /\ pc' # "turn") => loopCounter' = loopCounter + 1]_vars
    /\ [][(pc' = "turn" /\ pc # "turn") => pc \in {"goal", "endcycle", "complete"}]_vars
    /\ [][(pc' = "specialist" /\ pc # "specialist") =>
             pc = "turn" /\ loopCounter' = loopCounter + 1]_vars
    /\ [][pc = "specialist" => pc' = "endcycle" /\ loopCounter' = loopCounter]_vars
    /\ [](pc = "specialist" =>
            /\ cycleDelegation # NoDelegation
            /\ assigned \in 1..Len(activeSpecialists)
            /\ activeSpecialists[assigned].role = cycleDelegation.role
            /\ activeSpecialists[assigned].taskDescription = cycleDelegation.description
            /\ saved = Snapshot(phase, status, currentFocus, activeSpecialists,
                                completedTasks))

\* the second cycle delegates again to the specialist that completed the task of the
\* first, and its turn is about to start
C20_Witness ==
    /\ pc = "specialist"
    /\ loopCounter = 2
    /\ assigned = 1
    /\ completedTasks # <<>>
    /\ activeSpecialists[1].taskDescription = cycleDelegation.description

\* a directive that suppresses the specialist's turn
Suppressing(run) == run.sysAction \in {"WAIT", "REQUEST_USER_INPUT"} \/ run.ranCommand

\* C21: no specialist turn runs in a cycle whose directive holds a WAIT or
\* REQUEST_USER_INPUT system action, nor in a cycle that executes a direct command,
\* even when the directive holds a valid delegation: such a cycle never reaches the
\* specialist's turn, and a cycle in which a specialist ran is not such a cycle.
C21_SuppressedSpecialist ==
    /\ [](pc = "specialist" => ~Suppressing(cycleRun))
    /\ [](cycleRun.ranSpecialist => ~Suppressing(cycleRun))
    /\ [][(Suppressing(cycleRun') /\ cycleDelegated') =>
             pc' \in {"endcycle", "complete"} /\ ~cycleRun'.ranSpecialist]_vars

\* a cycle whose directive held WAIT and a valid delegation ends without a turn of
\* the specialist that was given the task
C21_Witness ==
    /\ pc = "endcycle"
    /\ cycleDelegated
    /\ cycleRun.sysAction = "WAIT"
    /\ ~cycleRun.ranSpecialist
    /\ activeSpecialists # <<>>

\* C22: when the specialist's response holds the completion marker of its task, the
\* turn leaves the specialist with a null taskDescription and the task text as the
\* last element of completedTasks, changes no other specialist, and saves that state,
\* so that the reload at the end of the cycle gives it back.
C22_TaskCompleteRecorded ==
    /\ [][(pc = "specialist" /\ cycleRun'.taskStatus = "TASK_COMPLETE") =>
             /\ Len(activeSpecialists') = Len(activeSpecialists)
             /\ activeSpecialists'[assigned] =
                    [role |-> activeSpecialists[assigned].role, taskDescription |-> Null]
             /\ \A i \in 1..Len(activeSpecialists) :
                    i # assigned => activeSpecialists'[i] = activeSpecialists[i]
             /\ completedTasks' # <<>>
             /\ completedTasks'[Len(completedTasks')] =
                    activeSpecialists[assigned].taskDescription
             /\ saved'.activeSpecialists = activeSpecialists'
             /\ saved'.completedTasks = completedTasks']_vars
    /\ [][(pc = "endcycle" /\ cycleRun.taskStatus = "TASK_COMPLETE") =>
             /\ activeSpecialists' = activeSpecialists
             /\ completedTasks' = completedTasks
             /\ activeSpecialists'[assigned].taskDescription = Null]_vars

\* the second of two specialists has completed its task; the first is still busy
C22_Witness ==
    /\ pc = "endcycle"
    /\ cycleRun.taskStatus = "TASK_COMPLETE"
    /\ Len(activeSpecialists) = 2
    /\ assigned = 2
    /\ activeSpecialists[1].taskDescription = "t1"
    /\ activeSpecialists[2].taskDescription = Null
    /\ completedTasks = <<"t2">>

\* the specialist's turn of the cycle ended blocked, or its inference call failed
BlockedOrFailed(run) ==
    run.ranSpecialist /\ (run.taskStatus = "TASK_BLOCKED" \/ run.specialistFailed)

\* C23: when a specialist's turn ends with TASK_BLOCKED, or its inference call fails,
\* the specialist keeps its taskDescription, through the end of the cycle too, and
\* completedTasks is unchanged; a failed call gives no task status of either kind.
C23_BlockedKeepsTask ==
    /\ [][(pc = "specialist" /\ BlockedOrFailed(cycleRun')) =>
             /\ activeSpecialists' = activeSpecialists
             /\ ~Falsy(activeSpecialists'[assigned].taskDescription)
             /\ completedTasks' = completedTasks]_vars
    /\ [][(pc = "endcycle" /\ BlockedOrFailed(cycleRun)) =>
             /\ activeSpecialists'[assigned] = activeSpecialists[assigned]
             /\ ~Falsy(activeSpecialists'[assigned].taskDescription)
             /\ completedTasks' = completedTasks]_vars
    /\ [](cycleRun.specialistFailed => cycleRun.taskStatus = Null)

\* a turn has ended blocked after an earlier task was completed
C23_Witness ==
    /\ pc = "endcycle"
    /\ cycleRun.taskStatus = "TASK_BLOCKED"
    /\ completedTasks # <<>>
    /\ activeSpecialists[assigned].taskDescription = cycleDelegation.description

\* C24: when the Orchestrator's inference call fails, the cycle logs the failure text
\* as its event, applies no system action, delegation, command, directory listing or
\* file read, runs no specialist, leaves phase, status and roster as they were, and
\* goes on to the end of the cycle and to the next cycle.
C24_FailedDirectiveIsNoOp ==
    /\ [][(loopCounter' = loopCounter + 1 /\ cycleRun'.failed) =>
             /\ cycleRun'.event = "[AI Error"
             /\ cycleRun'.sysAction = Null
             /\ ~cycleDelegated' /\ assigned' = 0
             /\ ~cycleRun'.ranCommand /\ ~cycleRun'.ranList /\ ~cycleRun'.ranRead
             /\ phase' = phase /\ status' = status
             /\ activeSpecialists' = activeSpecialists
             /\ saved' = Snapshot(phase, status, currentFocus, activeSpecialists,
                                  completedTasks)
             /\ pc' = "endcycle"]_vars
    /\ [][(pc = "endcycle" /\ cycleRun.failed) =>
             /\ pc' = "turn"
             /\ phase' = phase /\ status' = status
             /\ activeSpecialists' = activeSpecialists]_vars

\* a cycle whose inference call failed ends with a busy specialist still in the roster
C24_Witness ==
    /\ pc = "endcycle"
    /\ cycleRun.failed
    /\ loopCounter > 1
    /\ activeSpecialists # <<>>
    /\ activeSpecialists[1].taskDescription # Null

\* the roster keeps its members, in their places: it grows or stays
RosterKept ==
    /\ Len(activeSpecialists') >= Len(activeSpecialists)
    /\ \A i \in 1..Len(activeSpecialists) :
          activeSpecialists'[i].role = activeSpecialists[i].role

\* the cycle that follows a new goal starts with no specialist and no focus
StartsAfresh == activeSpecialists' = <<>> /\ currentFocus' = Null

\* C28: the Orchestrator turn that follows a new goal - the initial goal, the next
\* goal after a completed project, or the goal given as choice 3 of the stagnation
\* prompt - starts with an empty roster and a null currentFocus; and no step other
\* than a new goal or the completion of the project takes a member off the roster.
C28_NewGoalClearsRoster ==
    /\ [][(pc \in {"goal", "complete"} /\ pc' = "turn") => StartsAfresh]_vars
    /\ [][(pc = "endcycle" /\ cycleRun.goalSet /\ pc' = "turn") => StartsAfresh]_vars
    /\ [][(pc \notin {"goal", "complete"} /\ pc' # "complete"
           /\ ~(pc = "stagnation" /\ cycleRun'.goalSet)) => RosterKept]_vars

\* C29: at the end of a cycle in which a delegation assigned a task to a specialist,
\* new or reused, and the roster was not cleared, that specialist has run a turn for
\* the task; so no specialist is left holding a task it never worked on.
C29_DelegatedTaskRuns ==
    (pc = "endcycle" /\ cycleDelegated /\ activeSpecialists # <<>>) =>
       cycleRun.ranSpecialist

\* C30: once the Orchestrator's turn is over, the direct command, the directory
\* listing and the file read that its directive asked for have each been executed,
\* whichever system action the directive carried; and a specialist turn has run only
\* in a cycle without WAIT, REQUEST_USER_INPUT and direct command.
C30_RequestsAreOrthogonal ==
    cycleRun.event # Null =>
       /\ cycleRun.command => cycleRun.ranCommand
       /\ cycleRun.list => cycleRun.ranList
       /\ cycleRun.read => cycleRun.ranRead
       /\ cycleRun.ranSpecialist =>
             /\ cycleRun.sysAction \notin {"WAIT", "REQUEST_USER_INPUT"}
             /\ ~cycleRun.ranCommand

----------------------------------------------------------------------------
(* Claims about the order of saves and reloads (Spec)                      *)

\* C31: whenever the cycle is about to reload the snapshot, or is waiting for the
\* operator at the stagnation or the completion prompt, the persisted snapshot holds
\* the phase, the project status, the roster with every task assignment and
\* completion, and the completed tasks as they are in memory: a reload reverts none.
C31_ChangesSavedBeforeReload ==
    pc \in {"endcycle", "stagnation", "complete"} =>
       /\ saved.phase = phase
       /\ saved.status = status
       /\ saved.activeSpecialists = activeSpecialists
       /\ saved.completedTasks = completedTasks

\* a cycle changed the roster twice - a delegation created the second specialist, its
\* turn reported the task complete - and is about to reload
C31_Witness ==
    /\ pc = "endcycle"
    /\ cycleDelegated
    /\ cycleRun.ranSpecialist
    /\ cycleRun.taskStatus = "TASK_COMPLETE"
    /\ Len(activeSpecialists) = 2
    /\ activeSpecialists[assigned].taskDescription = Null
    /\ completedTasks # <<>>
    /\ phase # "Planning"

----------------------------------------------------------------------------
(* Claims about what a specialist's response can change (Spec)             *)

\* C34: a specialist's turn leaves phase and project status as they are, adds no
\* specialist, assigns no task, runs no command, listing or file read, and leaves
\* the persisted snapshot unchanged when the response carries nothing but the
\* Orchestrator's markers; and the phase changes only in an Orchestrator turn whose
\* directive is CHANGE_PHASE or REQUEST_USER_INPUT, or when the operator sets a goal.
C34_SpecialistChangesNoPhase ==
    /\ [][pc = "specialist" =>
            /\ phase' = phase /\ status' = status
            /\ Len(activeSpecialists') = Len(activeSpecialists)
            /\ \A i \in 1..Len(activeSpecialists) :
                  activeSpecialists'[i].taskDescription \in
                     {activeSpecialists[i].taskDescription, Null}
            /\ cycleRun'.ranCommand = cycleRun.ranCommand
            /\ cycleRun'.ranList = cycleRun.ranList
            /\ cycleRun'.ranRead = cycleRun.ranRead
            /\ cycleDelegation' = cycleDelegation
            /\ cycleRun'.specialistAsked => saved' = saved]_vars
    /\ [][phase' # phase =>
            \/ pc = "turn" /\ cycleRun'.sysAction \in {"CHANGE_PHASE", "REQUEST_USER_INPUT"}
            \/ pc \in {"goal", "complete"}
            \/ pc = "stagnation" /\ cycleRun'.goalSet]_vars

\* a specialist's turn has run on a response that carried the Orchestrator's
\* markers, in a phase other than the one its CHANGE_PHASE names
C34_Witness ==
    /\ pc = "endcycle"
    /\ cycleRun.ranSpecialist
    /\ cycleRun.specialistAsked
    /\ activeSpecialists[assigned].taskDescription = "t1"
    /\ phase = "Implementation"
    /\ saved.phase = "Implementation"
    /\ ~cycleRun.ranCommand

----------------------------------------------------------------------------
(* Claims about system actions that are dropped (Spec)                     *)

\* the system action of the directive is of no known type, or is a CHANGE_PHASE or
\* CHANGE_STATUS without its key or naming the value that is current
DroppedSystemAction(run, ph, st) ==
    \/ run.sysAction \notin {Null, "CHANGE_PHASE", "CHANGE_STATUS", "WAIT",
                             "REQUEST_USER_INPUT"}
    \/ /\ run.sysAction = "CHANGE_PHASE"
       /\ (run.paramKey # "phase" \/ run.paramValue = Null \/ run.paramValue = ph)
    \/ /\ run.sysAction = "CHANGE_STATUS"
       /\ (run.paramKey # "status" \/ run.paramValue = Null \/ run.paramValue = st)

\* C35: an Orchestrator turn whose system action is dropped leaves phase and project
\* status as they are, and still runs the command, the listing and the read of the
\* directive and assigns the delegated task, whose specialist runs next unless the
\* directive holds a command.
C35_DroppedSystemAction ==
    [][(pc = "turn" /\ loopCounter' = loopCounter + 1
        /\ DroppedSystemAction(cycleRun', phase, status)) =>
          /\ phase' = phase /\ status' = status
          /\ cycleRun'.command => cycleRun'.ranCommand
          /\ cycleRun'.list => cycleRun'.ranList
          /\ cycleRun'.read => cycleRun'.ranRead
          /\ cycleDelegation'.role \in RegisteredRoles =>
                /\ cycleDelegated'
                /\ \E i \in 1..Len(activeSpecialists') :
                      /\ activeSpecialists'[i].role = cycleDelegation'.role
                      /\ activeSpecialists'[i].taskDescription =
                            cycleDelegation'.description
                /\ pc' = IF cycleRun'.command THEN "endcycle" ELSE "specialist"]_vars

\* a directive with CHANGE_PHASE naming the current phase and a delegation has been
\* processed: the phase is the same and the specialist is up next
C35_Witness ==
    /\ pc = "specialist"
    /\ cycleRun.sysAction = "CHANGE_PHASE"
    /\ cycleRun.paramValue = "Implementation"
    /\ phase = "Implementation"
    /\ saved.phase = "Implementation"
    /\ loopCounter > 1
    /\ cycleDelegated

----------------------------------------------------------------------------
(* Claims about the verification records (VerifySpec)                      *)

\* C25: after a specialist turn that executed file operations, the snapshot that the
\* next cycle starts with holds, as its newest verification record, the record of
\* that turn with one result per executed operation, whether the operations
\* succeeded or failed.
C25_VerificationReachesNextCycle ==
    [][(pc = "endcycle" /\ pc' = "turn" /\ args.fn = "specialistTurn"
        /\ Len(args.results) > 0) =>
          /\ fileVerifications' # <<>>
          /\ fileVerifications'[Len(fileVerifications')] =
                [turn |-> loopCounter, results |-> args.results]]_vars

----------------------------------------------------------------------------
(* Claims about loading the snapshot (LoadSpec)                            *)

\* C27: after a load of a snapshot file that is absent or parses - whatever fields it
\* lacks, the SuperAgent record included - the load has not failed and the db object
\* holds a SuperAgent record with non-empty id and role, the file's own record when
\* that one is valid; and at the head of every cycle the SuperAgent record is valid.
C27_OrchestratorAfterLoad ==
    args # NoCall =>
      /\ (~args.file.exists \/ args.file.parses) =>
            /\ ~returned.thrown
            /\ ValidSuperAgent(returned.db.superAgent)
            /\ (args.file.exists /\ ValidSuperAgent(args.file.db.superAgent)) =>
                  /\ returned.db.superAgent.value.id = args.file.db.superAgent.value.id
                  /\ returned.db.superAgent.value.role = args.file.db.superAgent.value.role
      /\ returned.pc = "loop" => ValidSuperAgent(returned.db.superAgent)

\* a cycle has started from a file that lacked the SuperAgent's role, the roster, the
\* log, the project and the companion state
C27_Witness ==
    /\ args # NoCall
    /\ returned.pc = "loop"
    /\ returned.cycles = 0
    /\ args.file.exists /\ args.file.parses
    /\ args.file.db.superAgent.present
    /\ args.file.db.superAgent.value.role = Undefined
    /\ ~args.file.db.activeSpecialists.present
    /\ ~args.file.db.log.present
    /\ ~args.file.db.currentProject.present
    /\ ~args.file.db.companionState.present
    /\ returned.db.superAgent = Some(superAgentTemplate)
    /\ returned.db.companionState.value.phase = "PLANNING"

----------------------------------------------------------------------------
(* Claims about the recovery of the project record (LoadSpec)              *)

\* the phase that the goal prompts set (simulation.js lines 100-104, 231-233, 462-465)
GoalEntryPhase == "Planning"

\* C36: a load of a snapshot file without project record does not fail; the db object
\* holds a project with status "Planning" and empty bugs and completedTasks, and its
\* phase is the phase that the goal prompts set.
C36_MissingProjectRecovered ==
    (args # NoCall /\ args.file.exists /\ args.file.parses
     /\ ~args.file.db.currentProject.present) =>
       /\ ~returned.thrown
       /\ returned.db.currentProject.value.status = "Planning"
       /\ returned.db.currentProject.value.bugs = Some(<<>>)
       /\ returned.db.currentProject.value.completedTasks = Some(<<>>)
       /\ returned.db.companionState.value.phase = GoalEntryPhase

----------------------------------------------------------------------------
(* Claims about the phases in which turns run (LoadSpec)                   *)

AwaitingPhases == {"AWAITING_GOAL", "AWAITING_NEXT_GOAL"}

\* C33: once a cycle has run - an Orchestrator turn, and a specialist turn if the
\* directive delegated - the phase it ran in is neither AWAITING_GOAL nor
\* AWAITING_NEXT_GOAL, whatever snapshot file the process started from.
C33_NoTurnWhileAwaiting ==
    (args # NoCall /\ returned.cycles > 0) =>
       returned.db.companionState.value.phase \notin AwaitingPhases

----------------------------------------------------------------------------
(* Claims about the ids of the specialists (IdSpec)                        *)

\* C32: no two specialists of the roster have the same id.
C32_UniqueIds ==
    returned # NoCall =>
       \A i, j \in 1..Len(returned.roster) :
          returned.roster[i].id = returned.roster[j].id => i = j

\* two specialists of one role were created in consecutive cycles, the second as
\* early in its cycle as the clock allows
C32_Witness ==
    /\ returned # NoCall
    /\ args.created
    /\ Len(returned.roster) >= 2
    /\ returned.roster[1].role = returned.roster[2].role
    /\ returned.roster[2].id[3] - returned.roster[1].id[3] = 1500

----------------------------------------------------------------------------
(* Claims about what the Orchestrator is shown (ContextSpec)               *)

\* an Orchestrator turn is taken: its context is built
ContextBuilt == returned # NoCall /\ returned.pc = "turn" /\ args' # args

\* C37: the context of an Orchestrator turn is given, as last specialist event, the
\* event of the specialist turn of the cycle just before it, and no event when that
\* cycle ran no specialist: an event is shown to one Orchestrator turn only.
C37_SpecialistEventShownOnce ==
    [][ContextBuilt =>
          args'.lastSpecialistEvent =
             IF returned.lastSpecialist.turn = returned.cycles /\ returned.cycles > 0
             THEN returned.lastSpecialist ELSE NoEvent]_vars

\* the second Orchestrator turn after a blocked specialist: the first one was shown
\* the event, this one is shown none
C37_Witness ==
    /\ returned # NoCall
    /\ args # NoCall
    /\ returned.lastSpecialist.event = "TASK_BLOCKED"
    /\ returned.lastSpecialist.turn = 1
    /\ args.turn = 3
    /\ args.lastSpecialistEvent = NoEvent

\* C39: the context of an Orchestrator turn shows, as last console output, the
\* output of the command run in the cycle just before it, and none when that cycle
\* ran no command: an output is never older than the previous cycle.
C39_ConsoleOutputShownOnce ==
    [][ContextBuilt =>
          args'.lastConsoleOutput =
             IF returned.lastCommand = returned.cycles THEN returned.lastCommand
             ELSE 0]_vars

\* the Orchestrator has been shown the output of the command of the first cycle in
\* the second cycle and nothing in the third
C39_Witness ==
    /\ returned # NoCall
    /\ args # NoCall
    /\ returned.lastCommand = 1
    /\ args.turn = 3
    /\ args.lastConsoleOutput = 0
    /\ returned.savedConsoleOutput = 0

----------------------------------------------------------------------------
(* Claims about the file markers of a turn (MarkerSpec)                    *)

\* the markers of a response, as type and path, in document order
MarkersOf(text) ==
    LET F[k \in 0..Len(text)] ==
            IF k = 0 THEN <<>>
            ELSE IF text[k].kind = "marker"
                 THEN Append(F[k - 1], <<text[k].type, text[k].path>>)
                 ELSE F[k - 1]
    IN  F[Len(text)]

\* s can be read off t from left to right, no element of t being used twice
IsSubsequence(s, t) ==
    LET F[k \in 0..Len(t)] ==
            \* how many elements of s the first k elements of t account for
            IF k = 0 THEN 0
            ELSE IF F[k - 1] < Len(s) /\ s[F[k - 1] + 1] = t[k]
                 THEN F[k - 1] + 1 ELSE F[k - 1]
    IN  F[Len(t)] = Len(s)

\* the operations that the turn under way has submitted, as type and path
SubmittedThisTurn ==
    LET F[k \in 0..Len(returned.sent)] ==
            IF k = 0 THEN <<>>
            ELSE IF returned.sent[k].turn = returned.turns
                 THEN Append(F[k - 1], <<submitted[k].action, submitted[k].relativePath>>)
                 ELSE F[k - 1]
    IN  F[Len(returned.sent)]

----------------------------------------------------------------------------
(* Claims about the length of a run (RunSpec)                              *)

\* C40: a run makes at most 100 Orchestrator turns in at most 100 cycles, and it
\* ends with the operator interface closed, whatever the turns bring.
C40_RunTerminates ==
    /\ [](returned # NoCall =>
            returned.turns <= LoopLimit /\ returned.loopCounter <= LoopLimit)
    /\ <>(returned # NoCall /\ returned.pc = "closed")

\* the run has been closed by the loop's condition after its 100th turn
C40_Witness ==
    /\ returned # NoCall
    /\ returned.pc = "closed"
    /\ returned.turns = LoopLimit
    /\ returned.loopCounter = LoopLimit

============================================================================
